---- MODULE Spec2Model ----
(***************************************************************************)
(* The tool-calling orchestration loops of the MCP course demos:           *)
(*   run_chat            demos/05-local-agent-mcp/client_ollama_mcp.py     *)
(*   MCPChatApp          demos/02-study-case-.../chat_app.py               *)
(*   ChatCLI + SimpleMCPClient                                             *)
(*                       demos/02-study-case-.../chat_cli.py,              *)
(*                       demos/02-study-case-.../mcp_client_simple.py      *)
(*   run_agent           demos/06-deploy-simple-agent-mcp-vercel/main.py   *)
(* and the translation of the tool catalog into backend declarations        *)
(* (SpecCatalog).                                                          *)
(* One behaviour follows one of the four programs (prog).  The model       *)
(* backend and the tool registry are the environment: each of their        *)
(* answers is a nondeterministic choice.  Every await of the code is one   *)
(* step of the model.                                                      *)
(***************************************************************************)
EXTENDS Naturals, Sequences, FiniteSets

\* ------------------------------------------------------------------ bounds
\* Tools a provider exposes, where the catalog translation is checked.
MaxTools == 2
\* Queries typed at the prompt of an interactive program in one behaviour.
MaxQueries == 2
\* Tool invocations one backend response may request.
MaxInv == 2
\* Length of the history a request hands to run_agent.
MaxHistory == 6

\* ------------------------------------------------------- program constants
\* client_ollama_mcp.py:72  max_iterations = 5
max_iterations == 5
\* main.py:168  history[-5:]
HistoryWindow == 5

Progs == {"run_chat", "chat_app", "chat_cli", "run_agent"}

\* The catalogs an MCP server of the demos may expose (list_tools()).
Catalogs == {{}, {"read_file"}}
\* main.py:181-200: run_agent declares exactly these two tools.
AgentTools == {"fetch_url", "web_search"}

\* What one tool dispatch can do: a payload, a provider-reported error
\* (CallToolResult.isError), a raised exception, or arguments that do not parse.
ToolOutcomes == {"ok", "isError", "raises", "badargs"}
ToolFailures == {"isError", "raises", "badargs"}
\* A provider reached over an MCP session may also never answer: the calls
\* `await session.call_tool(...)` carry no timeout.
ProviderOutcomes == ToolOutcomes \cup {"hangs"}

VARIABLES
  prog,          \* which program this behaviour runs
  catalog,       \* the tools discovered from the provider
  mcp_tools,     \* the descriptors list_tools() returned, where their schemas matter
  declarations,  \* the backend declarations made from them
  connected,     \* whether the session with the tool provider is open
  messages,      \* the conversation the caller keeps (self.messages / messages)
  local,         \* the list a callee works on (chat_with_tools' messages, tool_messages)
  pc,            \* position of the flow of control
  pending,       \* tool invocations of the current response not yet dispatched
  tool_results,  \* get_claude_response's tool_results list
  response,      \* the answer of the last backend call (response / message / text)
  iter,          \* run_chat: iterations of the for loop entered
  result,        \* what the run handed to its caller
  queries,       \* queries started so far
  nextId,        \* the backend's generator of response and invocation identifiers
  calls,         \* observer: model-backend calls issued by the current run
  responses,     \* observer: what each of those calls answered
  outcomes,      \* observer: the tool dispatches of the current run
  histBefore,    \* observer: the kept conversation when the current query began
  heap,          \* concurrent run_agent: the list objects, by identity
  req,           \* concurrent run_agent: the local variables of each request
  error_counts,  \* ErrorHandler.error_counts
  logged,        \* observer: the errors log_error has logged, in order
  config,          \* validate_automation_config: its config argument
  automation_type, \* validate_automation_config: its automation_type argument
  validation,      \* validate_automation_config: how the call ended
  process,  \* MCPClient.process: 0 for None, else the subprocess it refers to
  procs,  \* the server subprocesses started so far, each running or terminated
  task,  \* MCPClient: where each caller's send_request stands
  stop,  \* MCPClient: where the shutdown's stop_server stands
  replies, \* observer: how each send_request call ended
  chat,  \* /api/chat: the local state of each request being served
  served, \* observer: the completed /api/chat requests, in order of completion
  sheet,  \* the status column (D) of the automation sheet, by row number
  mon,  \* run_monitoring_loop: its position, the automations of this cycle, the request in progress or just returned
  runs, \* observer: the row, last status update and return value of each finished process_automation_request call
  breaker,  \* CircuitBreaker: state, failure_count, last_failure_time (0 for None)
  now,  \* the clock datetime.now() reads
  cbcall,  \* CircuitBreaker.call: the call in progress, or how the last one ended
  failed_in_a_row, \* observer: how many invoked functions in a row have failed
  retry,  \* RetryHandler.retry_with_backoff: max_retries, attempt, last_exception, position, outcome
  attempts  \* observer: how each invocation of the function ended, in order

\* The variables of the tool-calling loops.
loopVars == <<prog, catalog, mcp_tools, declarations, connected, messages, local, pc,
              pending, tool_results, response, iter, result, queries, nextId, calls,
              responses, outcomes, histBefore>>

\* The variables of the other programs modelled below, program by program.
concVars == <<heap, req>>
errVars == <<error_counts, logged>>
valVars == <<config, automation_type, validation>>
mcpVars == <<process, procs, task, stop, replies>>
sbxVars == <<chat, served>>
monVars == <<sheet, mon, runs>>
cbVars == <<breaker, now, cbcall, failed_in_a_row>>
rtVars == <<retry, attempts>>
extraVars == <<concVars, errVars, valVars, mcpVars, sbxVars, monVars, cbVars, rtVars>>

\* What the steps of each of them leave alone.
restConc == <<errVars, valVars, mcpVars, sbxVars, monVars, cbVars, rtVars>>
restErr == <<loopVars, concVars, valVars, mcpVars, sbxVars, monVars, cbVars, rtVars>>
restVal == <<loopVars, concVars, errVars, mcpVars, sbxVars, monVars, cbVars, rtVars>>
restMcp == <<loopVars, concVars, errVars, valVars, sbxVars, monVars, cbVars, rtVars>>
restSbx == <<loopVars, concVars, errVars, valVars, mcpVars, monVars, cbVars, rtVars>>
restMon == <<loopVars, concVars, errVars, valVars, mcpVars, sbxVars, cbVars, rtVars>>
restCb == <<loopVars, concVars, errVars, valVars, mcpVars, sbxVars, monVars, rtVars>>
restRt == <<loopVars, concVars, errVars, valVars, mcpVars, sbxVars, monVars, cbVars>>

vars == <<loopVars, extraVars>>

\* ----------------------------------------------------------------- messages
NoInvs == <<>>
NoResults == <<>>

Msg(role, text, invs, results) ==
  [role |-> role, text |-> text, invs |-> invs, results |-> results]

\* chat_cli.py:50-54 and 149-153: the system message.
SystemMsg == Msg("system", 0, NoInvs, NoResults)

\* {"role": "user", "content": query}
UserMsg(q) == Msg("user", q, NoInvs, NoResults)

\* The assistant message built from a backend response.
AssistantMsg(resp) == Msg("assistant", resp.text, resp.invs, NoResults)

NoResult == [how |-> "none", what |-> "", text |-> 0]
Return(what, text) == [how |-> "return", what |-> what, text |-> text]
Raise(what) == [how |-> "raise", what |-> what, text |-> 0]

Last(s) == s[Len(s)]

\* ------------------------------------------------------------ model backend
\* The invocations of a response requesting k tools: fresh identifiers, names
\* taken from the declared tools.
NewInvs(names) == [i \in 1..Len(names) |-> [id |-> nextId + i, name |-> names[i]]]

\* What a backend call handed `declared` tools may answer: a failure, a text, or
\* (only when tools were declared) a request for 1..maxInv of the declared tools.
\* `says` is the wording of the text where it matters to the caller; "" stands
\* for any other wording.
BackendResponses(declared, maxInv) ==
  {[kind |-> "fail", text |-> 0, invs |-> NoInvs, says |-> ""]}
  \cup {[kind |-> "text", text |-> nextId, invs |-> NoInvs, says |-> ""]}
  \cup {[kind |-> "tools", text |-> nextId, invs |-> NewInvs(names), says |-> ""] :
          names \in UNION {[1..k -> declared] : k \in 1..maxInv}}

NoResponse == [kind |-> "none", text |-> 0, invs |-> NoInvs, says |-> ""]

\* The backend consumed one response identifier and one per invocation.
IdsAfter(resp) == nextId + 1 + Len(resp.invs)

\* Observer: one more backend call, what it was given (the messages and the
\* tools parameter) and its answer.
Called(resp, conv, declared) ==
  /\ response' = resp
  /\ calls' = calls + 1
  /\ responses' = Append(responses,
                         [kind |-> resp.kind, text |-> resp.text, invs |-> resp.invs,
                          says |-> resp.says, sent |-> conv, declared |-> declared])
  /\ nextId' = IdsAfter(resp)

\* Observer: one more dispatch, made after `calls` backend calls.
Dispatched(inv, outcome) ==
  outcomes' = Append(outcomes, [id |-> inv.id, kind |-> outcome, call |-> calls])

\* Observer: a query begins.
BeginRun ==
  /\ queries' = queries + 1
  /\ calls' = 0
  /\ responses' = <<>>
  /\ outcomes' = <<>>
  /\ result' = NoResult
  /\ histBefore' = messages

\* The programs modelled further below are not running.
ConcIdle ==
  /\ heap = <<>>
  /\ req = <<>>

ErrIdle ==
  /\ error_counts = <<>>
  /\ logged = <<>>

ValIdle ==
  /\ config = <<>>
  /\ automation_type = ""
  /\ validation = <<>>

McpIdle ==
  /\ process = 0
  /\ procs = <<>>
  /\ task = <<>>
  /\ stop = ""
  /\ replies = <<>>

SbxIdle ==
  /\ chat = <<>>
  /\ served = <<>>

MonIdle ==
  /\ sheet = <<>>
  /\ mon = <<>>
  /\ runs = <<>>

CbIdle ==
  /\ breaker = <<>>
  /\ now = 0
  /\ cbcall = <<>>
  /\ failed_in_a_row = 0

RtIdle ==
  /\ retry = <<>>
  /\ attempts = <<>>

ExtraIdle ==
  /\ ConcIdle
  /\ ErrIdle
  /\ ValIdle
  /\ McpIdle
  /\ SbxIdle
  /\ MonIdle
  /\ CbIdle
  /\ RtIdle

Init ==
  /\ ExtraIdle
  /\ prog \in Progs
  /\ catalog \in (IF prog = "run_agent" THEN {AgentTools} ELSE Catalogs)
  /\ mcp_tools = <<>>
  /\ declarations = <<>>
  /\ connected = (prog \in {"chat_app", "chat_cli"})
  /\ messages = IF prog = "chat_cli" THEN <<SystemMsg>> ELSE <<>>
  /\ local = <<>>
  /\ pc = "idle"
  /\ pending = <<>>
  /\ tool_results = <<>>
  /\ response = NoResponse
  /\ iter = 0
  /\ result = NoResult
  /\ queries = 0
  /\ nextId = 1
  /\ calls = 0
  /\ responses = <<>>
  /\ outcomes = <<>>
  /\ histBefore = <<>>

\* ============================================================== MCPChatApp
\* The message assigned as the whole list instead of appended to it.
AppendMsg_Assign(list, m) == <<m>>

\* chat_app.py:220: self.messages.append(...)
AppendMsg(list, m) == Append(list, m)

\* chat_app.py:243: tools=claude_tools if claude_tools else None
ChatApp_ToolsParam(claude_tools) == claude_tools

\* The tool_result block with the identifier lost.
ToolResultEntry_NoId(inv, content) == [id |-> 0, content |-> content]

\* chat_app.py:269-273: the tool_result block of one tool_use block.
ToolResultEntry(inv, content) == [id |-> inv.id, content |-> content]

\* chat_app.py:306-327 execute_mcp_tool: the text it returns.  A provider-reported
\* error is not told apart from a payload (result.isError is never read): its
\* content comes back as is.  An exception becomes "Error executing tool: ...".
execute_mcp_tool(outcome) ==
  CASE outcome = "ok" -> "payload"
    [] outcome = "isError" -> "provider error text"
    [] OTHER -> "Error executing tool"

\* The exception swallowed: an empty answer is returned.
ChatApp_OnBackendError_Swallow == Return("model_text", 0)

\* chat_app.py:303-304: return f"Error getting response: {e}"
ChatApp_OnBackendError == Return("Error getting response", 0)

\* chat_app.py:295-301: the text blocks of the response, joined.
ChatApp_Text(resp) == Return("model_text", resp.text)

\* The tool_result block put in front of the list instead of at its end.
ChatApp_Collect_Front(list, entry) == <<entry>> \o list

\* chat_app.py:269: tool_results.append({...})
ChatApp_Collect(list, entry) == Append(list, entry)

\* Only the first tool_use block handled.
ChatApp_Remaining_FirstOnly(blocks) == <<>>

\* chat_app.py:259: for tool_use in tool_use_blocks: the blocks still to handle.
ChatApp_Remaining(blocks) == Tail(blocks)

\* chat_app.py:306-327: what the provider may do with one call.  tool_use.input
\* arrives parsed, so there are no arguments left to parse.
ChatApp_Outcomes == {"ok", "isError", "raises", "hangs"}

\* chat_app.py:183-223 chat_loop: a query is read, the user message appended.
ChatApp_UserInput ==
  /\ prog = "chat_app" /\ pc = "idle" /\ queries < MaxQueries
  /\ BeginRun
  /\ messages' = AppendMsg(messages, UserMsg(queries + 1))
  /\ pc' = "call1"
  /\ UNCHANGED <<extraVars, prog, catalog, mcp_tools, declarations, connected, local, pending, tool_results, response, iter, nextId>>

\* chat_app.py:347-349 handle_command: /clear.
ChatApp_Clear ==
  /\ prog = "chat_app" /\ pc = "idle"
  /\ messages' = <<>>
  /\ UNCHANGED <<extraVars, prog, catalog, mcp_tools, declarations, connected, local, pc, pending, tool_results, response, iter,
                 result, queries, nextId, calls, responses, outcomes, histBefore>>

\* chat_app.py:236-256 and 298-304: the first backend call of get_claude_response.
ChatApp_ModelCall1 ==
  /\ prog = "chat_app" /\ pc = "call1"
  /\ \E resp \in BackendResponses(ChatApp_ToolsParam(catalog), MaxInv) :
       /\ Called(resp, messages, ChatApp_ToolsParam(catalog))
       /\ IF resp.kind = "fail"
          THEN /\ result' = ChatApp_OnBackendError
               /\ pc' = "idle"
               /\ UNCHANGED <<messages, pending>>
          ELSE /\ messages' = AppendMsg(messages, AssistantMsg(resp))
               /\ IF resp.invs # <<>>
                  THEN /\ pending' = resp.invs
                       /\ pc' = "tools"
                       /\ UNCHANGED result
                  ELSE /\ result' = ChatApp_Text(resp)
                       /\ pc' = "idle"
                       /\ UNCHANGED pending
  /\ tool_results' = <<>>
  /\ UNCHANGED <<extraVars, prog, catalog, mcp_tools, declarations, connected, local, iter, queries, outcomes, histBefore>>

\* chat_app.py:259-279: one pass of the for loop over tool_use_blocks; after the
\* last one the results go into the conversation as one user message.
ChatApp_ExecuteTool ==
  /\ prog = "chat_app" /\ pc = "tools" /\ pending # <<>>
  /\ \E outcome \in ChatApp_Outcomes :
       LET inv == Head(pending)
           collected == ChatApp_Collect(tool_results,
                                        ToolResultEntry(inv, execute_mcp_tool(outcome)))
           rest == ChatApp_Remaining(pending)
       IN /\ Dispatched(inv, outcome)
          /\ CASE outcome = "hangs" ->
                    /\ pc' = "blocked"
                    /\ UNCHANGED <<messages, pending, tool_results>>
               [] outcome # "hangs" /\ rest = <<>> ->
                    /\ messages' = AppendMsg(messages, Msg("user", 0, NoInvs, collected))
                    /\ pending' = rest
                    /\ tool_results' = collected
                    /\ pc' = "call2"
               [] OTHER ->
                    /\ pending' = rest
                    /\ tool_results' = collected
                    /\ UNCHANGED <<messages, pc>>
  /\ UNCHANGED <<extraVars, prog, catalog, mcp_tools, declarations, connected, local, response, iter, result, queries, nextId,
                 calls, responses, histBefore>>

\* chat_app.py:281-297 and 303-304: the second backend call, made without tools.
ChatApp_ModelCall2 ==
  /\ prog = "chat_app" /\ pc = "call2"
  /\ \E resp \in BackendResponses({}, MaxInv) :
       /\ Called(resp, messages, {})
       /\ IF resp.kind = "fail"
          THEN /\ result' = ChatApp_OnBackendError
               /\ UNCHANGED messages
          ELSE /\ messages' = AppendMsg(messages, AssistantMsg(resp))
               /\ result' = ChatApp_Text(resp)
  /\ pc' = "idle"
  /\ UNCHANGED <<extraVars, prog, catalog, mcp_tools, declarations, connected, local, pending, tool_results, iter, queries,
                 outcomes, histBefore>>

\* ================================================================ run_chat
\* client_ollama_mcp.py:94-103: the two messages one tool round adds: the
\* assistant's text, then the tool's answer as a user message.
RunChat_Round(resp, content) ==
  <<AssistantMsg(resp), Msg("user", 0, NoInvs, <<[id |-> 0, content |-> content]>>)>>

\* client_ollama_mcp.py:78, 86: the tool names a response text may carry.  The
\* tools are only described in the system prompt and the call is found by a
\* regular expression over free text: nothing ties the name to the catalog.
RunChat_Names == {"read_file"}

\* client_ollama_mcp.py:85-91: what handling one call can do; a tool the server
\* does not expose cannot answer with a payload.
RunChat_Outcomes(inv) ==
  IF inv.name \in catalog THEN ProviderOutcomes ELSE ProviderOutcomes \ {"ok"}

\* client_ollama_mcp.py:76-80: what ollama.chat may answer.  The text is free:
\* it may be, word for word, the sentence of client_ollama_mcp.py:110.
RunChat_Responses ==
  BackendResponses(RunChat_Names, 1)
  \cup {[kind |-> "text", text |-> nextId, invs |-> NoInvs,
          says |-> "Maximum iterations reached."]}

\* client_ollama_mcp.py:91: json.dumps of the result's content, error or not.
RunChat_ToolText(outcome) ==
  IF outcome = "ok" THEN "payload" ELSE "provider error text"

\* run_chat returning the text of its first response instead of the last.
RunChat_Final_Stale(resp) == Return("model_text", responses'[1].text)

\* client_ollama_mcp.py:80: return text
RunChat_Final(resp) == Return("model_text", resp.text)

\* client_ollama_mcp.py:105-108: what a failed tool call makes run_chat return.
RunChat_OnToolError(resp, outcome) ==
  IF outcome = "badargs"
  THEN Return("model_text + [Error parsing tool call]", resp.text)
  ELSE Return("model_text + [Error executing tool]", resp.text)

\* client_ollama_mcp.py:80, 110: run_chat returns a str in both cases; this is
\* the str the caller receives for a result, given the responses of the run.
\* A text of no particular wording is told from any other by its identifier.
RunChat_Value(r, rs) ==
  IF r.what = "Maximum iterations reached."
  THEN [str |-> "Maximum iterations reached.", id |-> 0]
  ELSE LET resp == CHOOSE x \in {rs[i] : i \in 1..Len(rs)} : x.text = r.text
       IN IF resp.says = ""
          THEN [str |-> "", id |-> r.text]
          ELSE [str |-> resp.says, id |-> 0]

\* client_ollama_mcp.py:36-72: connect, discover the tools, build the messages.
RunChat_Start ==
  /\ prog = "run_chat" /\ pc = "idle" /\ queries = 0
  /\ BeginRun
  /\ messages' = <<SystemMsg, UserMsg(1)>>
  /\ iter' = 0
  /\ pc' = "loop"
  /\ connected' = TRUE
  /\ UNCHANGED <<extraVars, prog, catalog, mcp_tools, declarations, local, pending, tool_results, response, nextId>>

\* client_ollama_mcp.py:73-80: one more iteration: the backend call, and the
\* search for a <tool_call> tag (at most one invocation per response).
RunChat_ModelCall ==
  /\ prog = "run_chat" /\ pc = "loop" /\ iter < max_iterations
  /\ iter' = iter + 1
  /\ \E resp \in RunChat_Responses :
       /\ Called(resp, messages, catalog)
       /\ CASE resp.kind = "fail" ->
                 /\ result' = Raise("backend error")
                 /\ pc' = "raised"
                 /\ UNCHANGED pending
            [] resp.kind = "text" ->
                 /\ result' = RunChat_Final(resp)
                 /\ pc' = "done"
                 /\ UNCHANGED pending
            [] OTHER ->
                 /\ pending' = resp.invs
                 /\ pc' = "tool"
                 /\ UNCHANGED result
  /\ connected' = (pc' = "tool")
  /\ UNCHANGED <<extraVars, prog, catalog, mcp_tools, declarations, messages, local, tool_results, queries, outcomes,
                 histBefore>>

\* client_ollama_mcp.py:82-108: parse the call, execute it, extend the messages;
\* a parse error or an exception ends run_chat with the text and a note.
RunChat_CallTool ==
  /\ prog = "run_chat" /\ pc = "tool"
  /\ \E outcome \in RunChat_Outcomes(Head(pending)) :
       /\ Dispatched(Head(pending), outcome)
       /\ CASE outcome = "hangs" ->
                 /\ pc' = "blocked"
                 /\ UNCHANGED <<messages, result, pending>>
            [] outcome \in {"raises", "badargs"} ->
                 /\ result' = RunChat_OnToolError(response, outcome)
                 /\ pc' = "done"
                 /\ pending' = <<>>
                 /\ UNCHANGED messages
            [] OTHER ->
                 /\ messages' = messages \o RunChat_Round(response, RunChat_ToolText(outcome))
                 /\ pc' = "loop"
                 /\ pending' = <<>>
                 /\ UNCHANGED result
  /\ connected' = (pc' # "done")
  /\ UNCHANGED <<extraVars, prog, catalog, mcp_tools, declarations, local, tool_results, response, iter, queries, nextId,
                 calls, responses, histBefore>>

\* client_ollama_mcp.py:110: the for loop ran out.
RunChat_Exhausted ==
  /\ prog = "run_chat" /\ pc = "loop" /\ iter = max_iterations
  /\ result' = Return("Maximum iterations reached.", 0)
  /\ pc' = "done"
  /\ connected' = FALSE
  /\ UNCHANGED <<extraVars, prog, catalog, mcp_tools, declarations, messages, local, pending, tool_results, response, iter,
                 queries, nextId, calls, responses, outcomes, histBefore>>

\* ============================================== ChatCLI and SimpleMCPClient
\* mcp_client_simple.py:57-82 call_tool: the text it returns (it raises when the
\* session's call raises).
call_tool(outcome) ==
  IF outcome = "isError" THEN "Error: provider error text" ELSE "payload"

\* mcp_client_simple.py:159-163: the tool message of one tool call.
ToolMsg(inv, content) ==
  Msg("tool", 0, NoInvs, <<[id |-> inv.id, content |-> content]>>)

\* mcp_client_simple.py:124: tools=tools if tools else None
Simple_ToolsParam(tools) == tools

\* chat_cli.py:111-112: the list handed to chat_with_tools.
Cli_HandedOver(list) == list

\* chat_cli.py:116-117: the assistant message kept from chat_with_tools' answer.
Cli_Kept(resp) == Msg("assistant", resp.text, NoInvs, NoResults)

\* The history emptied, the system message with it.
Cli_Cleared_Empty == <<>>

\* chat_cli.py:149-153: the history /clear leaves.
Cli_Cleared == <<SystemMsg>>

\* chat_cli.py:87-114 chat_loop: a query is read, the user message appended and
\* chat_with_tools called on a copy of the messages.
Cli_UserInput ==
  /\ prog = "chat_cli" /\ pc = "idle" /\ queries < MaxQueries
  /\ BeginRun
  /\ messages' = Append(messages, UserMsg(queries + 1))
  /\ local' = Cli_HandedOver(messages')
  /\ pc' = "call1"
  /\ UNCHANGED <<extraVars, prog, catalog, mcp_tools, declarations, connected, pending, tool_results, response, iter, nextId>>

\* chat_cli.py:148-154 handle_command: /clear.
Cli_Clear ==
  /\ prog = "chat_cli" /\ pc = "idle"
  /\ messages' = Cli_Cleared
  /\ UNCHANGED <<extraVars, prog, catalog, mcp_tools, declarations, connected, local, pc, pending, tool_results, response, iter,
                 result, queries, nextId, calls, responses, outcomes, histBefore>>

\* mcp_client_simple.py:117-146 and 172-173, chat_cli.py:116-117: the first
\* backend call.  An exception leaves chat_loop (which catches only EOFError and
\* KeyboardInterrupt) and ends the program in start().
Simple_ModelCall1 ==
  /\ prog = "chat_cli" /\ pc = "call1"
  /\ \E resp \in BackendResponses(Simple_ToolsParam(catalog), MaxInv) :
       /\ Called(resp, local, Simple_ToolsParam(catalog))
       /\ CASE resp.kind = "fail" ->
                 /\ result' = Raise("backend error")
                 /\ pc' = "raised"
                 /\ UNCHANGED <<messages, local, pending>>
            [] resp.kind = "text" ->
                 /\ result' = Return("model_text", resp.text)
                 /\ messages' = Append(messages, Cli_Kept(resp))
                 /\ pc' = "idle"
                 /\ UNCHANGED <<local, pending>>
            [] OTHER ->
                 /\ local' = Append(local, AssistantMsg(resp))
                 /\ pending' = resp.invs
                 /\ pc' = "tools"
                 /\ UNCHANGED <<messages, result>>
  /\ connected' = (pc' # "raised")
  /\ UNCHANGED <<extraVars, prog, catalog, mcp_tools, declarations, tool_results, iter, queries, outcomes, histBefore>>

\* mcp_client_simple.py:149-163: one pass of the for loop over tool_calls.
\* json.loads and call_tool are not guarded: their exception leaves the loop.
Simple_CallTool ==
  /\ prog = "chat_cli" /\ pc = "tools" /\ pending # <<>>
  /\ \E outcome \in ProviderOutcomes :
       /\ Dispatched(Head(pending), outcome)
       /\ CASE outcome = "hangs" ->
                 /\ pc' = "blocked"
                 /\ UNCHANGED <<local, pending, result>>
            [] outcome \in {"raises", "badargs"} ->
                 /\ result' = Raise("tool error")
                 /\ pc' = "raised"
                 /\ UNCHANGED <<local, pending>>
            [] OTHER ->
                 /\ local' = Append(local, ToolMsg(Head(pending), call_tool(outcome)))
                 /\ pending' = Tail(pending)
                 /\ pc' = IF Tail(pending) = <<>> THEN "call2" ELSE "tools"
                 /\ UNCHANGED result
  /\ connected' = (pc' # "raised")
  /\ UNCHANGED <<extraVars, prog, catalog, mcp_tools, declarations, messages, tool_results, response, iter, queries,
                 nextId, calls, responses, histBefore>>

\* mcp_client_simple.py:165-171, chat_cli.py:116-117: the second backend call,
\* made without tools; its content is what the caller keeps.
Simple_ModelCall2 ==
  /\ prog = "chat_cli" /\ pc = "call2"
  /\ \E resp \in BackendResponses({}, MaxInv) :
       /\ Called(resp, local, {})
       /\ IF resp.kind = "fail"
          THEN /\ result' = Raise("backend error")
               /\ pc' = "raised"
               /\ UNCHANGED messages
          ELSE /\ result' = Return("model_text", resp.text)
               /\ messages' = Append(messages, Cli_Kept(resp))
               /\ pc' = "idle"
  /\ connected' = (pc' # "raised")
  /\ UNCHANGED <<extraVars, prog, catalog, mcp_tools, declarations, local, pending, tool_results, iter, queries,
                 outcomes, histBefore>>

\* =============================================================== run_agent
\* The history a request carries: n ChatMessages, user and assistant in turn.
History(n) ==
  [i \in 1..n |-> Msg(IF i % 2 = 1 THEN "user" ELSE "assistant", i, NoInvs, NoResults)]

\* main.py:168: history[-5:]
LastOf(s, k) == IF Len(s) <= k THEN s ELSE SubSeq(s, Len(s) - k + 1, Len(s))

\* main.py:150-178: the system message, the last messages of the history, the query.
Agent_BuildMessages(history, q) ==
  <<SystemMsg>> \o LastOf(history, HistoryWindow) \o <<UserMsg(q)>>

\* main.py:229-239: what one tool call answers.  fetch_url turns its own
\* failures into a text (main.py:88-89); web_search is simulated.
Agent_ToolText(inv, outcome) ==
  CASE inv.name = "fetch_url" -> IF outcome = "ok" THEN "payload" ELSE "Error fetching URL"
    [] inv.name = "web_search" -> "[Web search simulation]"
    [] OTHER -> "Unknown tool"

\* main.py:267-268: every exception becomes an HTTPException(500).
Agent_OnError == Raise("HTTPException 500")

\* main.py:139-200: the API key is checked and the messages are built.
Agent_Start ==
  /\ prog = "run_agent" /\ pc = "idle" /\ queries = 0
  /\ queries' = queries + 1
  /\ calls' = 0
  /\ responses' = <<>>
  /\ outcomes' = <<>>
  /\ histBefore' = messages
  /\ \E haveKey \in BOOLEAN :
       IF haveKey
       THEN /\ \E n \in 0..MaxHistory :
                 messages' = Agent_BuildMessages(History(n), n + 1)
            /\ result' = NoResult
            /\ pc' = "call1"
       ELSE /\ result' = Raise("ValueError")
            /\ pc' = "raised"
            /\ UNCHANGED messages
  /\ UNCHANGED <<extraVars, prog, catalog, mcp_tools, declarations, connected, local, pending, tool_results, response, iter, nextId>>

\* main.py:202-225 and 264-268: the first backend call.
Agent_ModelCall1 ==
  /\ prog = "run_agent" /\ pc = "call1"
  /\ \E resp \in BackendResponses(catalog, MaxInv) :
       /\ Called(resp, messages, catalog)
       /\ CASE resp.kind = "fail" ->
                 /\ result' = Agent_OnError
                 /\ pc' = "raised"
                 /\ UNCHANGED <<local, pending>>
            [] resp.kind = "text" ->
                 /\ result' = Return("model_text", resp.text)
                 /\ pc' = "done"
                 /\ UNCHANGED <<local, pending>>
            [] OTHER ->
                 /\ local' = Append(messages, AssistantMsg(resp))
                 /\ pending' = resp.invs
                 /\ pc' = "tools"
                 /\ UNCHANGED result
  /\ UNCHANGED <<extraVars, prog, catalog, mcp_tools, declarations, connected, messages, tool_results, iter, queries, outcomes,
                 histBefore>>

\* main.py:227-246: one pass of the for loop over tool_calls; eval of the
\* arguments or the call itself may raise, which ends the run (main.py:267).
Agent_CallTool ==
  /\ prog = "run_agent" /\ pc = "tools" /\ pending # <<>>
  /\ \E outcome \in ToolOutcomes :
       /\ Dispatched(Head(pending), outcome)
       /\ IF outcome = "badargs"
          THEN /\ result' = Agent_OnError
               /\ pc' = "raised"
               /\ UNCHANGED <<local, pending>>
          ELSE /\ local' = Append(local, ToolMsg(Head(pending),
                                                 Agent_ToolText(Head(pending), outcome)))
               /\ pending' = Tail(pending)
               /\ pc' = IF Tail(pending) = <<>> THEN "call2" ELSE "tools"
               /\ UNCHANGED result
  /\ UNCHANGED <<extraVars, prog, catalog, mcp_tools, declarations, connected, messages, tool_results, response, iter, queries,
                 nextId, calls, responses, histBefore>>

\* main.py:248-262 and 267-268: the second backend call, made without tools.
Agent_ModelCall2 ==
  /\ prog = "run_agent" /\ pc = "call2"
  /\ \E resp \in BackendResponses({}, MaxInv) :
       /\ Called(resp, local, {})
       /\ IF resp.kind = "fail"
          THEN /\ result' = Agent_OnError
               /\ pc' = "raised"
          ELSE /\ result' = Return("model_text", resp.text)
               /\ pc' = "done"
  /\ UNCHANGED <<extraVars, prog, catalog, mcp_tools, declarations, connected, messages, local, pending, tool_results, iter, queries,
                 outcomes, histBefore>>

Next ==
  \/ RunChat_Start
  \/ RunChat_ModelCall
  \/ RunChat_CallTool
  \/ RunChat_Exhausted
  \/ ChatApp_UserInput
  \/ ChatApp_Clear
  \/ ChatApp_ModelCall1
  \/ ChatApp_ExecuteTool
  \/ ChatApp_ModelCall2
  \/ Cli_UserInput
  \/ Cli_Clear
  \/ Simple_ModelCall1
  \/ Simple_CallTool
  \/ Simple_ModelCall2
  \/ Agent_Start
  \/ Agent_ModelCall1
  \/ Agent_CallTool
  \/ Agent_ModelCall2

Spec == Init /\ [][Next]_vars

\* ====================================================== catalog translation
\* A JSON-schema dict: `has` are the keys present ("type" is always "object"
\* and has no field here); a key that is absent reads as <<>> and is never
\* looked at by Get.
Dict(has, properties, required) ==
  [has |-> has, properties |-> properties, required |-> required]

EmptyDict == Dict({}, <<>>, <<>>)

\* dict.get(key, default)
Get(d, key, default) == IF key \in d.has THEN d[key] ELSE default

\* The attributes of a dict object: its methods.  The keys of a dict are not
\* attributes of it.
DictAttributes == {"get", "keys", "values", "items"}

\* hasattr(d, name) for a dict d.
hasattr(d, name) == name \in DictAttributes

\* The input schemas of the tools a server may expose (types.Tool.inputSchema,
\* a dict): empty, with properties only, with properties and a required list.
\* A properties value is written as the list of the parameter names.
ParamLists == {<<"filename">>, <<"filename", "content">>}
RequiredLists == {<<>>, <<"filename">>}
Schemas ==
  {EmptyDict}
  \cup {Dict({"properties"}, p, <<>>) : p \in ParamLists}
  \cup {Dict({"properties", "required"}, p, r) : p \in ParamLists, r \in RequiredLists}

\* types.Tool: name, description (None is written ""), inputSchema.
Descriptors ==
  [name : {"read_document", "write_document"}, description : {"", "described"},
   inputSchema : Schemas]

ToolLists == UNION {[1..n -> Descriptors] : n \in 0..MaxTools}

\* chat_app.py:89-110 _convert_mcp_to_claude_tool
convert_mcp_to_claude_tool(mcp_tool) ==
  [name |-> mcp_tool.name,
   description |-> IF mcp_tool.description # "" THEN mcp_tool.description
                   ELSE "Execute <name>",
   input_schema |->
     IF mcp_tool.inputSchema # EmptyDict
     THEN Dict({"type", "properties", "required"},
               Get(mcp_tool.inputSchema, "properties", <<>>),
               Get(mcp_tool.inputSchema, "required", <<>>))
     ELSE Dict({"type", "properties"}, <<>>, <<>>)]

\* mcp_client_simple.py:90-110: the declaration of one tool.  inputSchema is a
\* dict, and the code asks hasattr for its keys.
openai_tool(tool) ==
  [type |-> "function",
   function |->
     [name |-> tool.name,
      description |-> tool.description,
      parameters |->
        Dict({"type", "properties", "required"},
             IF tool.inputSchema # EmptyDict /\ hasattr(tool.inputSchema, "properties")
             THEN tool.inputSchema.properties ELSE <<>>,
             IF tool.inputSchema # EmptyDict /\ hasattr(tool.inputSchema, "required")
             THEN tool.inputSchema.required ELSE <<>>)]]

\* The state after connect() and list_tools(): the descriptors are known,
\* nothing is declared yet.
InitCatalog ==
  /\ ExtraIdle
  /\ prog \in {"chat_app", "chat_cli"}
  /\ mcp_tools \in ToolLists
  /\ catalog = {mcp_tools[i].name : i \in 1..Len(mcp_tools)}
  /\ declarations = <<>>
  /\ connected = TRUE
  /\ messages = IF prog = "chat_cli" THEN <<SystemMsg>> ELSE <<>>
  /\ local = <<>>
  /\ pc = "listed"
  /\ pending = <<>>
  /\ tool_results = <<>>
  /\ response = NoResponse
  /\ iter = 0
  /\ result = NoResult
  /\ queries = 0
  /\ nextId = 1
  /\ calls = 0
  /\ responses = <<>>
  /\ outcomes = <<>>
  /\ histBefore = <<>>

\* chat_app.py:152: claude_tools = [self._convert_mcp_to_claude_tool(tool) ...]
ChatApp_ConvertTools ==
  /\ prog = "chat_app" /\ pc = "listed"
  /\ declarations' = [i \in 1..Len(mcp_tools) |-> convert_mcp_to_claude_tool(mcp_tools[i])]
  /\ pc' = "idle"
  /\ UNCHANGED <<extraVars, prog, catalog, mcp_tools, connected, messages, local, pending, tool_results,
                 response, iter, result, queries, nextId, calls, responses, outcomes,
                 histBefore>>

\* mcp_client_simple.py:84-113 get_available_tools_for_openai
Simple_ConvertTools ==
  /\ prog = "chat_cli" /\ pc = "listed"
  /\ declarations' = [i \in 1..Len(mcp_tools) |-> openai_tool(mcp_tools[i])]
  /\ pc' = "idle"
  /\ UNCHANGED <<extraVars, prog, catalog, mcp_tools, connected, messages, local, pending, tool_results,
                 response, iter, result, queries, nextId, calls, responses, outcomes,
                 histBefore>>

NextCatalog ==
  \/ ChatApp_ConvertTools
  \/ Simple_ConvertTools

SpecCatalog == InitCatalog /\ [][NextCatalog]_vars

\* ================================================================== claims
\* A run was made and has come to its end.
RunEnded == queries > 0 /\ pc \in {"idle", "done", "raised"}

\* The run's outcomes, as its caller sees them.
Done(r) == r.how = "return" /\ r.what = "model_text"
Exhausted(r) == r.how = "return" /\ r.what = "Maximum iterations reached."

\* The responses of the current run are n >= 0 tool requests, then one text.
ToolsThenText ==
  /\ responses # <<>>
  /\ Last(responses).kind = "text"
  /\ \A i \in 1..(Len(responses) - 1) : responses[i].kind = "tools"

AllTools ==
  /\ responses # <<>>
  /\ \A i \in 1..Len(responses) : responses[i].kind = "tools"

\* C1 (budget enforcement): when every response of a run_chat run requested a
\* tool, the run has made at most max_iterations backend calls and ended with
\* "Maximum iterations reached.".  Violated: a tool call that raises, or whose
\* JSON does not parse, ends run_chat after its first call with the response
\* text and an error note (see C5).
C1_BudgetEnforcement ==
  (prog = "run_chat" /\ RunEnded /\ AllTools)
    => (calls <= max_iterations /\ Exhausted(result))

\* C2 (turn accounting): once the backend has answered N tool requests followed
\* by one text, the run is over, it made exactly N+1 backend calls, and it
\* returned that text as a normal answer.
C2_TurnAccounting ==
  ToolsThenText
    => /\ RunEnded
       /\ calls = Len(responses)
       /\ Done(result)
       /\ result.text = Last(responses).text

\* C2's case: run_chat answered after four tool rounds (N = 4, five calls).
C2_Witness ==
  /\ prog = "run_chat" /\ pc = "done"
  /\ ToolsThenText /\ Len(responses) = max_iterations
  /\ Len(outcomes) = max_iterations - 1

\* The conversation the next backend call is given.
Conv == IF prog \in {"chat_cli", "run_agent"} /\ pc = "call2" THEN local ELSE messages

AboutToCall == pc \in {"call1", "call2"}

\* The tool results that follow position i of a conversation, up to the next
\* message that carries none.
RECURSIVE ResultsFrom(_, _)
ResultsFrom(conv, i) ==
  IF i > Len(conv) \/ conv[i].results = <<>>
  THEN <<>>
  ELSE conv[i].results \o ResultsFrom(conv, i + 1)

IdsOf(seq) == [j \in 1..Len(seq) |-> seq[j].id]

\* Every tool request of the conversation is followed by exactly one result per
\* invocation, in order, each carrying its invocation's identifier.
WellCorrelated(conv) ==
  \A i \in 1..Len(conv) :
    conv[i].invs # <<>> => IdsOf(ResultsFrom(conv, i + 1)) = IdsOf(conv[i].invs)

\* C3 (result correlation): whenever chat_app, chat_with_tools or run_agent is
\* about to call the backend, every assistant tool request of the conversation
\* it sends has exactly one tool result per invocation, with that invocation's
\* tool_use_id / tool_call_id.
C3_ResultCorrelation ==
  (prog \in {"chat_app", "chat_cli", "run_agent"} /\ AboutToCall) => WellCorrelated(Conv)

\* C3's case: chat_app is about to make its second call after a response that
\* requested two tools, one of which failed.
C3_Witness ==
  /\ prog = "chat_app" /\ pc = "call2"
  /\ Len(response.invs) = 2
  /\ \E i \in 1..Len(outcomes) : outcomes[i].kind = "raises"

\* The invocation of the current run with identifier id was handled.
Handled(id) == \E k \in 1..Len(outcomes) : outcomes[k].id = id

\* The conversation the run works on.
Working == IF prog \in {"chat_cli", "run_agent"} THEN local ELSE messages

\* The current conversation holds a tool result for the invocation id.
HasResult(id) ==
  \E i \in 1..Len(Working) :
    \E j \in 1..Len(Working[i].results) : Working[i].results[j].id = id

\* The invocation with identifier id failed.
Failed(id) ==
  \E k \in 1..Len(outcomes) : outcomes[k].id = id /\ outcomes[k].kind \in ToolFailures

\* C4 (error isolation within a turn): in chat_app and chat_with_tools, once
\* the tool loop of a response that requested several tools is left (for the
\* next backend call, or by an exception), a failed
\* invocation of it has its tool result in the conversation and every later
\* invocation of the same response was dispatched and has its result too.
\* Violated: chat_with_tools guards neither json.loads nor call_tool, so a
\* raising invocation ends the run and the later ones are never dispatched.
C4_ErrorIsolation ==
  (prog \in {"chat_app", "chat_cli"} /\ pc \in {"call2", "raised"})
    => \A i \in 1..Len(responses) :
         LET invs == responses[i].invs
         IN \A j \in 1..Len(invs) :
              (Len(invs) >= 2 /\ Failed(invs[j].id))
                => \A m \in j..Len(invs) :
                     Handled(invs[m].id) /\ HasResult(invs[m].id)

\* C5 (a tool failure never stops the loop): in run_chat and chat_app, when a
\* run that did not exhaust its budget has ended, every failed tool invocation
\* was followed by a further backend call, and the run did not raise.
\* Violated: run_chat returns at once from its except clauses.
C5_ToolFailureContinues ==
  (prog \in {"run_chat", "chat_app"} /\ RunEnded /\ ~Exhausted(result))
    => /\ \A k \in 1..Len(outcomes) :
            outcomes[k].kind \in ToolFailures => calls > outcomes[k].call
       /\ (\E k \in 1..Len(outcomes) : outcomes[k].kind \in ToolFailures)
            => result.how # "raise" \/ Last(responses).kind = "fail"

IsPrefix(s, t) == Len(s) <= Len(t) /\ SubSeq(t, 1, Len(s)) = s

\* The /clear command: issued at the prompt, between runs.
ClearStep ==
  /\ prog \in {"chat_app", "chat_cli"}
  /\ pc = "idle" /\ pc' = "idle"
  /\ queries' = queries
  /\ messages' = (IF prog = "chat_cli" THEN <<SystemMsg>> ELSE <<>>)

\* C6 (append-only history): every step leaves the kept conversation a prefix
\* of what it becomes, and during a run the working list too; the only step
\* that removes messages is the /clear command, taken between runs.
C6_AppendOnly ==
  [][ /\ IsPrefix(messages, messages') \/ ClearStep
      /\ pc # "idle" => IsPrefix(local, local') ]_vars

\* C6's case: a second query of chat_app has added a tool request and its
\* results to a history that already held the first query's messages.
C6_Witness ==
  /\ prog = "chat_app" /\ queries = 2 /\ pc = "call2"
  /\ Len(histBefore) >= 2
  /\ Len(messages) = Len(histBefore) + 3

\* Messages of a conversation other than the system message.
RECURSIVE Exchanged(_)
Exchanged(conv) ==
  IF conv = <<>> THEN 0
  ELSE (IF Head(conv).role = "system" THEN 0
        ELSE IF Head(conv).results # <<>> THEN Len(Head(conv).results) ELSE 1)
       + Exchanged(Tail(conv))

\* Messages a run exchanged: the user message, each response, each tool result.
RECURSIVE ExchangedIn(_)
ExchangedIn(rs) ==
  IF rs = <<>> THEN 0 ELSE 1 + Len(Head(rs).invs) + ExchangedIn(Tail(rs))

\* C7 (history completeness): at the step that ends a query of ChatCLI with an
\* answer, the conversation kept in self.messages holds every message the run
\* exchanged: the user message, each tool request with its results, the final
\* text (2 messages for a query without tools, 4 for one tool call).
\* Violated: chat_loop hands chat_with_tools a copy of the messages and keeps
\* only the user message and the final text.
C7_HistoryComplete ==
  [][ (prog = "chat_cli" /\ pc # "idle" /\ pc' = "idle" /\ Done(result'))
        => Exchanged(messages') - Exchanged(histBefore') = 1 + ExchangedIn(responses')
    ]_vars

\* C8 (no-tools passthrough): with an empty catalog a run makes one backend
\* call and no more, handles no tool invocation, is over after that call, and
\* returns the call's text as its answer.  Violated: run_chat never consults
\* the catalog; a <tool_call> tag in the response is dispatched all the same
\* and a second backend call follows.  chat_app and chat_with_tools hand the
\* backend no tools and do make one call only.
C8_NoToolsPassthrough ==
  (catalog = {} /\ queries > 0)
    => /\ calls <= 1
       /\ outcomes = <<>>
       /\ RunEnded => calls = 1
       /\ calls = 1 => RunEnded
       /\ (calls = 1 /\ response.kind = "text")
            => (Done(result) /\ result.text = response.text)

BackendFailed == responses # <<>> /\ Last(responses).kind = "fail"

Failures == {i \in 1..Len(responses) : responses[i].kind = "fail"}

C10_HistoryIntact ==
  [][ (prog \in {"chat_app", "chat_cli"} /\ calls' = calls + 1 /\ BackendFailed')
        => messages' = histBefore'
    ]_vars

\* A step handled a tool request whose arguments do not parse.
BadArgsStep ==
  /\ Len(outcomes') = Len(outcomes) + 1
  /\ Last(outcomes').kind = "badargs"

\* Tool results a conversation holds.
RECURSIVE ResultCount(_)
ResultCount(conv) ==
  IF conv = <<>> THEN 0 ELSE Len(Head(conv).results) + ResultCount(Tail(conv))

\* C11 (malformed tool call): the step of run_chat, chat_with_tools or run_agent
\* that meets a tool request whose arguments do not parse adds one tool result
\* to the conversation, and the run neither raises nor ends at that step.
\* Violated: run_chat returns from its `except json.JSONDecodeError`,
\* chat_with_tools lets json.loads raise, run_agent turns the exception of
\* eval into an HTTPException.
C11_MalformedCallIsolated ==
  [][ (BadArgsStep /\ catalog # {})
        => /\ pc' \notin {"done", "raised", "idle"}
           /\ result' = NoResult
           /\ ResultCount(Working') = ResultCount(Working) + 1
    ]_vars

\* C12 (exhaustion is told apart from success): the value run_chat returns
\* when it ends with an answer of the model differs from the value it returns
\* when its iterations run out.  Violated: both are plain strings, and the
\* model's answer may be the very sentence "Maximum iterations reached.".
C12_ExhaustedDistinct ==
  (prog = "run_chat" /\ RunEnded /\ Done(result))
    => RunChat_Value(result, responses)
         # RunChat_Value(Return("Maximum iterations reached.", 0), <<>>)

\* C13 (what a run returns): when a run of run_chat, chat_app or
\* chat_with_tools whose backend calls all succeeded has returned a value, the
\* value is either "Maximum iterations reached." or the text of the run's last
\* response, and that response requested no tool.  Violated: after a tool call
\* that raises, or whose JSON does not parse, run_chat returns the text of the
\* tool-requesting response with an error note appended (see C5, C11).
C13_ReturnedValues ==
  (prog \in {"run_chat", "chat_app", "chat_cli"} /\ catalog # {} /\ RunEnded
     /\ result.how = "return" /\ ~BackendFailed)
    => \/ Exhausted(result)
       \/ /\ Done(result)
          /\ Last(responses).kind = "text"
          /\ result.text = Last(responses).text

\* The identifiers of the invocations the responses requested, in order.
RECURSIVE Requested(_)
Requested(rs) ==
  IF rs = <<>> THEN <<>> ELSE IdsOf(Head(rs).invs) \o Requested(Tail(rs))

\* In a conversation, the messages carrying tool results come right after the
\* assistant message that requested them, and their results follow the order of
\* its invocations (run_chat's result messages carry no identifier: there it is
\* one result after each request).
OrderedTurns(conv) ==
  \A i \in 1..Len(conv) :
    conv[i].results # <<>>
      => \E j \in 1..(i - 1) :
           /\ conv[j].role = "assistant" /\ conv[j].invs # <<>>
           /\ \A l \in (j + 1)..i : conv[l].results # <<>>
           /\ IF prog = "run_chat"
              THEN Len(ResultsFrom(conv, j + 1)) = Len(conv[j].invs)
              ELSE IsPrefix(IdsOf(ResultsFrom(conv, j + 1)), IdsOf(conv[j].invs))

\* C14 (ordering inside a tool turn): in every state, the tool results of a
\* conversation follow the assistant message that requested them, in the order
\* of its invocations; the results get_claude_response has collected so far are
\* those of the first invocations of the response, in order; and the dispatches
\* made so far are the first requested invocations, in the order requested.
C14_TurnOrdering ==
  /\ OrderedTurns(messages)
  /\ OrderedTurns(local)
  /\ pc = "tools" => IsPrefix(IdsOf(tool_results), IdsOf(response.invs))
  /\ IsPrefix(IdsOf(outcomes), Requested(responses))

\* C14's case: chat_app has put the two results of a two-tool request into the
\* conversation, behind the assistant message, and is about to call again.
C14_Witness ==
  /\ prog = "chat_app" /\ pc = "call2"
  /\ Len(messages) >= 3
  /\ Len(messages[Len(messages) - 1].invs) = 2
  /\ Len(Last(messages).results) = 2
  /\ Len(outcomes) = 2

\* The control state of the loop: waiting for the backend, dispatching the
\* tools of a response, or over (with an answer, out of iterations, or failed).
Phase ==
  IF pc \in {"call1", "call2", "loop"} THEN "AwaitingModel"
  ELSE IF pc \in {"tool", "tools", "blocked"} THEN "DispatchingTools"
  ELSE IF queries = 0 THEN "NotStarted"
  ELSE IF Exhausted(result) THEN "Exhausted"
  ELSE IF result.how = "raise" \/ BackendFailed THEN "Failed"
  ELSE "Done"

\* The transitions of the claim, and the start of a run.
Transitions ==
  {<<"NotStarted", "AwaitingModel">>,
   <<"AwaitingModel", "Done">>,
   <<"AwaitingModel", "DispatchingTools">>,
   <<"DispatchingTools", "AwaitingModel">>,
   <<"AwaitingModel", "Exhausted">>}

\* C15 (control states): every step of run_chat and chat_app either leaves the
\* control state as it is, starts a new run, fails on a backend error while
\* awaiting the model, or takes one of the transitions AwaitingModel->Done,
\* AwaitingModel->DispatchingTools, DispatchingTools->AwaitingModel,
\* AwaitingModel->Exhausted; and once a run is Done or Exhausted it makes no
\* backend call and no dispatch.  Violated: run_chat goes from DispatchingTools
\* straight to its end when a tool call raises or does not parse (see C5).
C15_ControlStates ==
  [][ (prog \in {"run_chat", "chat_app"} /\ catalog # {})
        => /\ \/ Phase' = Phase
              \/ queries' = queries + 1 /\ Phase' = "AwaitingModel"
              \/ Phase = "AwaitingModel" /\ Phase' = "Failed"
              \/ <<Phase, Phase'>> \in Transitions
           /\ (Phase \in {"Done", "Exhausted"} /\ queries' = queries)
                => (calls' = calls /\ outcomes' = outcomes)
    ]_vars

\* C16 (every backend call is given everything): each backend call that
\* chat_app, chat_with_tools or run_agent issues is given the whole
\* conversation of that moment and the tools of the catalog.  Violated: the
\* call made after the tool results (chat_app.py:282-287,
\* mcp_client_simple.py:166-169, main.py:249-258) passes the messages but no
\* tools.
C16_CallsGivenAll ==
  [][ (prog \in {"chat_app", "chat_cli", "run_agent"} /\ calls' = calls + 1)
        => /\ Last(responses').sent = Conv
           /\ Last(responses').declared = catalog
    ]_vars

Unanswered == \E k \in 1..Len(outcomes) : outcomes[k].kind = "hangs"

\* C18 (no dispatch blocks the loop forever): a run of chat_app, run_chat or
\* chat_with_tools one of whose dispatches the provider never answers can
\* still take a step unless it is over: the run is not stuck at the dispatch.
\* Violated: none of the three awaits call_tool under a timeout, so the run
\* stays at its await for ever, with no step left to take.
C18_DispatchTimesOut ==
  (prog \in {"chat_app", "run_chat", "chat_cli"} /\ Unanswered)
    => (RunEnded \/ ENABLED Next)

\* The name and the schema of a backend declaration, in Claude's format or in
\* OpenAI's.
DeclName(d) == IF prog = "chat_app" THEN d.name ELSE d.function.name
DeclSchema(d) == IF prog = "chat_app" THEN d.input_schema ELSE d.function.parameters

\* C19 (catalog translation): once the descriptors are converted there is one
\* declaration per descriptor, in catalog order, with the descriptor's name,
\* its properties and its required list.  Violated: get_available_tools_for_openai
\* tests hasattr(tool.inputSchema, 'properties') on a dict, which is never
\* true, so every declaration goes out with no properties and nothing required.
C19_TranslationFaithful ==
  pc = "idle"
    => /\ Len(declarations) = Len(mcp_tools)
       /\ \A i \in 1..Len(mcp_tools) :
            /\ DeclName(declarations[i]) = mcp_tools[i].name
            /\ Get(DeclSchema(declarations[i]), "properties", <<>>)
                 = Get(mcp_tools[i].inputSchema, "properties", <<>>)
            /\ Get(DeclSchema(declarations[i]), "required", <<>>)
                 = Get(mcp_tools[i].inputSchema, "required", <<>>)

\* A command other than a query was handled at the prompt of chat_app or
\* ChatCLI and changed something: of the commands modelled, that is /clear.
CommandStep ==
  /\ prog \in {"chat_app", "chat_cli"}
  /\ pc = "idle" /\ pc' = "idle"
  /\ queries' = queries

\* The next query is read at the prompt.
QueryStep ==
  /\ prog \in {"chat_app", "chat_cli"}
  /\ pc = "idle" /\ pc' = "call1"

\* C20 (the clear command touches the conversation only): the /clear step
\* leaves the history empty in chat_app and holding only the system message in
\* ChatCLI, and changes neither the catalog, nor the declarations, nor the
\* connection, nor anything else; the query read next starts a run on the
\* history as /clear left it plus the new user message, with the same catalog
\* and an open connection.
C20_ClearFrame ==
  [][ /\ CommandStep
           => /\ messages' = (IF prog = "chat_cli" THEN <<SystemMsg>> ELSE <<>>)
              /\ UNCHANGED <<extraVars, prog, catalog, mcp_tools, declarations, connected, local, pc,
                             pending, tool_results, response, iter, result, queries,
                             nextId, calls, responses, outcomes, histBefore>>
      /\ QueryStep
           => /\ messages' = Append(messages, UserMsg(queries'))
              /\ prog = "chat_cli" => local' = messages'
              /\ histBefore' = messages
              /\ calls' = 0 /\ result' = NoResult
              /\ connected' /\ UNCHANGED <<catalog, mcp_tools, declarations>>
    ]_vars

\* C20's case: ChatCLI answered a first query, the history was cleared, and a
\* second query ran a tool round and was answered: the history holds the system
\* message, the second user message and its answer, nothing of the first query.
C20_Witness ==
  /\ prog = "chat_cli" /\ pc = "idle" /\ queries = 2
  /\ connected /\ catalog # {}
  /\ Done(result) /\ calls = 2 /\ outcomes # <<>>
  /\ histBefore = <<SystemMsg>>
  /\ Len(messages) = 3 /\ messages[2] = UserMsg(2)

\* The tool-calling loops at rest, for the behaviours of the other programs.
LoopIdle(p, c) ==
  /\ prog = p
  /\ catalog = c
  /\ mcp_tools = <<>>
  /\ declarations = <<>>
  /\ connected = FALSE
  /\ messages = <<>>
  /\ local = <<>>
  /\ pc = "idle"
  /\ pending = <<>>
  /\ tool_results = <<>>
  /\ response = NoResponse
  /\ iter = 0
  /\ result = NoResult
  /\ queries = 0
  /\ calls = 0
  /\ responses = <<>>
  /\ outcomes = <<>>
  /\ histBefore = <<>>

\* ========================================= run_agent: two requests at a time
\* /api/chat is an async endpoint: a second request may run while the first
\* waits at one of its awaits.  Lists are objects: heap[ref] is the content of
\* the list with identity ref, and a local variable holds a ref (0: unassigned).
Requests == {1, 2}

\* The history lengths of the requests of this specification.
ConcHistories == {0, MaxHistory}

\* A list bound to the caller's history object instead of a new one.
Agent_NewList_Alias(h, history) == history

\* main.py:150, 223: messages = [] and messages.copy() make a new list object.
Agent_NewList(h, history) == Len(h) + 1

\* Writing a list: a new object extends the heap, an existing one is replaced.
Store(h, ref, content) ==
  IF ref = Len(h) + 1 THEN Append(h, content) ELSE [h EXCEPT ![ref] = content]

\* The lists a request made for itself.
OwnRefs(r) == {req[r].messages, req[r].tool_messages} \ {0}

InitConcurrent ==
  /\ LoopIdle("run_agent", AgentTools)
  /\ RtIdle
  /\ CbIdle
  /\ MonIdle
  /\ SbxIdle
  /\ McpIdle
  /\ ErrIdle
  /\ ValIdle
  /\ nextId = 1
  /\ \E n \in ConcHistories, shared \in BOOLEAN :
       /\ heap = IF shared THEN <<History(n)>> ELSE <<History(n), History(n)>>
       /\ req = [r \in Requests |->
                   [pc |-> "idle", history |-> IF shared THEN 1 ELSE r, messages |-> 0,
                    tool_messages |-> 0, pending |-> <<>>, result |-> NoResult]]

\* main.py:139-178: the key check and the building of messages.
Conc_Start(r) ==
  /\ req[r].pc = "idle"
  /\ \E haveKey \in BOOLEAN :
       IF haveKey
       THEN LET ref == Agent_NewList(heap, req[r].history)
            IN /\ heap' = Store(heap, ref, Agent_BuildMessages(heap[req[r].history], r))
               /\ req' = [req EXCEPT ![r].messages = ref, ![r].pc = "call1"]
       ELSE /\ req' = [req EXCEPT ![r].result = Raise("ValueError"), ![r].pc = "raised"]
            /\ UNCHANGED heap
  /\ UNCHANGED <<loopVars, restConc>>

\* main.py:202-225 and 264-268: the first backend call; a tool request makes
\* tool_messages, a copy of messages with the assistant message appended.
Conc_ModelCall1(r) ==
  /\ req[r].pc = "call1"
  /\ \E resp \in BackendResponses(catalog, 1) :
       /\ nextId' = IdsAfter(resp)
       /\ CASE resp.kind = "fail" ->
                 /\ req' = [req EXCEPT ![r].result = Agent_OnError, ![r].pc = "raised"]
                 /\ UNCHANGED heap
            [] resp.kind = "text" ->
                 /\ req' = [req EXCEPT ![r].result = Return("model_text", resp.text),
                                       ![r].pc = "done"]
                 /\ UNCHANGED heap
            [] OTHER ->
                 LET ref == Agent_NewList(heap, req[r].history)
                 IN /\ heap' = Store(heap, ref,
                                     Append(heap[req[r].messages], AssistantMsg(resp)))
                    /\ req' = [req EXCEPT ![r].tool_messages = ref,
                                          ![r].pending = resp.invs, ![r].pc = "tools"]
  /\ UNCHANGED <<prog, catalog, mcp_tools, declarations, connected, messages, local, pc,
                 pending, tool_results, response, iter, result, queries, calls,
                 responses, outcomes, histBefore, restConc>>

\* main.py:227-246: one pass of the for loop over tool_calls.
Conc_CallTool(r) ==
  /\ req[r].pc = "tools" /\ req[r].pending # <<>>
  /\ \E outcome \in ToolOutcomes :
       LET inv == Head(req[r].pending)
           rest == Tail(req[r].pending)
       IN IF outcome = "badargs"
          THEN /\ req' = [req EXCEPT ![r].result = Agent_OnError, ![r].pc = "raised"]
               /\ UNCHANGED heap
          ELSE /\ heap' = [heap EXCEPT ![req[r].tool_messages] =
                                  Append(@, ToolMsg(inv, Agent_ToolText(inv, outcome)))]
               /\ req' = [req EXCEPT ![r].pending = rest,
                                     ![r].pc = IF rest = <<>> THEN "call2" ELSE "tools"]
  /\ UNCHANGED <<loopVars, restConc>>

\* main.py:248-262 and 267-268: the second backend call.
Conc_ModelCall2(r) ==
  /\ req[r].pc = "call2"
  /\ \E resp \in BackendResponses({}, 1) :
       /\ nextId' = IdsAfter(resp)
       /\ IF resp.kind = "fail"
          THEN req' = [req EXCEPT ![r].result = Agent_OnError, ![r].pc = "raised"]
          ELSE req' = [req EXCEPT ![r].result = Return("model_text", resp.text),
                                  ![r].pc = "done"]
  /\ UNCHANGED heap
  /\ UNCHANGED <<prog, catalog, mcp_tools, declarations, connected, messages, local, pc,
                 pending, tool_results, response, iter, result, queries, calls,
                 responses, outcomes, histBefore, restConc>>

NextConcurrent ==
  \E r \in Requests :
    \/ Conc_Start(r)
    \/ Conc_ModelCall1(r)
    \/ Conc_CallTool(r)
    \/ Conc_ModelCall2(r)

SpecConcurrent == InitConcurrent /\ [][NextConcurrent]_vars

\* The caller-supplied history objects.
HistoryRefs == {req[r].history : r \in Requests}

\* C21 (independent conversation state): under every interleaving of two
\* run_agent requests, the lists a request made (messages, tool_messages) are
\* objects of its own, shared neither with the other request nor with a
\* caller's history; a step changes no list but one owned by the request that
\* takes it; and no step changes a caller's history.
C21_IndependentState ==
  [][ /\ \A r1, r2 \in Requests :
           r1 # r2 => (OwnRefs(r1) \cap OwnRefs(r2) = {})'
      /\ \A r \in Requests : (OwnRefs(r) \cap HistoryRefs = {})'
      /\ \A ref \in 1..Len(heap) :
           heap'[ref] # heap[ref]
             => /\ ref \notin HistoryRefs
                /\ \E r \in Requests : req'[r] # req[r] /\ ref \in OwnRefs(r)
      /\ \A r \in Requests :
           req'[r] # req[r] => \A o \in Requests \ {r} : req'[o] = req[o]
    ]_vars

\* C21's case: both requests, given the same history object, are inside their
\* tool rounds at the same time, each with a tool_messages list of its own.
C21_Witness ==
  /\ req # <<>>
  /\ req[1].history = req[2].history
  /\ Len(heap[req[1].history]) = MaxHistory
  /\ req[1].pc = "call2" /\ req[2].pc = "tools"
  /\ req[1].tool_messages # 0 /\ req[2].tool_messages # 0
  /\ Len(heap[req[1].tool_messages]) > Len(heap[req[1].messages])

\* ============================================================ ErrorHandler
\* Errors one behaviour logs.
MaxErrors == 3

\* Strings are written as sequences of pieces, so that joining them is not the
\* identity.  type(error).__name__ is an identifier: one piece, never ":".
ErrorTypes == {<<"AutomationError">>, <<"ValueError">>}

\* The contexts callers pass: none, a plain word, one with a colon in it.
Contexts == {<<>>, <<"deploy">>, <<"deploy", ":", "test">>}

\* The error key made of the type alone.
ErrorKey_TypeOnly(error_type, context) == error_type

\* error_handler.py:85: error_key = f"{error_info['error_type']}:{context}"
ErrorKey(error_type, context) == error_type \o <<":">> \o context

EmptyCounts == [k \in {} |-> 0]

\* error_handler.py:86: self.error_counts[error_key] = self.error_counts.get(error_key, 0) + 1
Counted(counts, key) ==
  [k \in DOMAIN counts \cup {key} |->
     IF k = key THEN (IF key \in DOMAIN counts THEN counts[key] ELSE 0) + 1
     ELSE counts[k]]

RECURSIVE SumOver(_, _)
SumOver(counts, keys) ==
  IF keys = {} THEN 0
  ELSE LET k == CHOOSE x \in keys : TRUE
       IN counts[k] + SumOver(counts, keys \ {k})

\* error_handler.py:116-118 get_error_summary
total_errors == SumOver(error_counts, DOMAIN error_counts)

InitErrors ==
  /\ LoopIdle("ErrorHandler", {})
  /\ RtIdle
  /\ CbIdle
  /\ MonIdle
  /\ SbxIdle
  /\ McpIdle
  /\ nextId = 1
  /\ ConcIdle
  /\ ValIdle
  /\ error_counts = EmptyCounts
  /\ logged = <<>>

\* error_handler.py:57-88 log_error.  When the log file cannot be written the
\* call raises before the counts are touched and nothing was logged.
log_error(error_type, context) ==
  /\ Len(logged) < MaxErrors
  /\ \E written \in BOOLEAN :
       IF written
       THEN /\ error_counts' = Counted(error_counts, ErrorKey(error_type, context))
            /\ logged' = Append(logged, [type |-> error_type, context |-> context])
       ELSE UNCHANGED <<error_counts, logged>>
  /\ UNCHANGED restErr

\* error_handler.py:57-63: log_error(error, context="", ...)
Err_LogError ==
  \E error_type \in ErrorTypes, context \in Contexts : log_error(error_type, context)

\* error_handler.py:90-112 handle_automation_error: builds the response and
\* calls log_error; context defaults to "automation_processing".
Err_HandleAutomationError ==
  \E error_type \in ErrorTypes, context \in Contexts \cup {<<"automation_processing">>} :
    log_error(error_type, context)

NextErrors ==
  \/ Err_LogError
  \/ Err_HandleAutomationError

SpecErrors == InitErrors /\ [][NextErrors]_vars

\* How many of the logged errors have this type and context.
LoggedWith(error_type, context) ==
  Cardinality({i \in 1..Len(logged) :
                 logged[i].type = error_type /\ logged[i].context = context})

\* C22 (ErrorHandler accounting): after any sequence of log_error and
\* handle_automation_error calls, total_errors is the number of errors logged,
\* and for every exception type and context the count kept under
\* '<type>:<context>' is the number of logged errors with that type and
\* context (no entry when there is none).
C22_ErrorAccounting ==
  /\ total_errors = Len(logged)
  /\ \A error_type \in ErrorTypes,
        context \in Contexts \cup {<<"automation_processing">>} :
       LET key == error_type \o <<":">> \o context
       IN IF LoggedWith(error_type, context) = 0
          THEN key \notin DOMAIN error_counts
          ELSE key \in DOMAIN error_counts
               /\ error_counts[key] = LoggedWith(error_type, context)

\* C22's case: three errors were logged, two of them with the same type and
\* context, the third with the same type and another context.
C22_Witness ==
  /\ Len(logged) = 3
  /\ logged[1] = logged[2]
  /\ logged[3].type = logged[1].type /\ logged[3].context # logged[1].context
  /\ Cardinality(DOMAIN error_counts) = 2

\* ============================================== validate_automation_config
\* config.py:74-95 Config.VALIDATION_RULES: the automation types.
AutomationTypes ==
  {"file_processor", "api_monitor", "data_sync", "notification_sender", "report_generator"}

\* config.py:74-95 Config.VALIDATION_RULES[t]['required_fields']
required_fields(t) ==
  CASE t = "file_processor" -> {"source_directory", "actions"}
    [] t = "api_monitor" -> {"endpoint"}
    [] t = "data_sync" -> {"source", "destination"}
    [] t = "notification_sender" -> {"trigger_conditions", "notification_channels"}
    [] t = "report_generator" -> {"report_type"}
    [] OTHER -> {}

\* The type names a caller may pass or a config may hold: the known ones and
\* one the rules do not know.
TypeNames == AutomationTypes \cup {"custom"}

Fields == UNION {required_fields(t) : t \in AutomationTypes}

\* A config argument: a dict, given by the keys it holds and the value under
\* "type", or a value that is no dict (None, a list).
Configs ==
  {[isdict |-> TRUE, keys |-> ks, type |-> ""] : ks \in SUBSET Fields}
  \cup {[isdict |-> TRUE, keys |-> ks \cup {"type"}, type |-> t] :
          ks \in SUBSET Fields, t \in TypeNames}
  \cup {[isdict |-> FALSE, keys |-> {}, type |-> ""]}

\* The fields checked for data_sync without 'destination'.
CheckedFields_NoDestination(t) ==
  CASE t = "file_processor" -> <<"source_directory", "actions">>
    [] t = "api_monitor" -> <<"endpoint">>
    [] t = "data_sync" -> <<"source">>
    [] t = "notification_sender" -> <<"trigger_conditions", "notification_channels">>
    [] t = "report_generator" -> <<"report_type">>
    [] OTHER -> <<>>

\* error_handler.py:179-203: the fields the if/elif chain checks for each
\* automation type, in the order it checks them.
CheckedFields(t) ==
  CASE t = "file_processor" -> <<"source_directory", "actions">>
    [] t = "api_monitor" -> <<"endpoint">>
    [] t = "data_sync" -> <<"source", "destination">>
    [] t = "notification_sender" -> <<"trigger_conditions", "notification_channels">>
    [] t = "report_generator" -> <<"report_type">>
    [] OTHER -> <<>>

\* error_handler.py:173-176: the errors about the 'type' key.
TypeErrors(c, t) ==
  IF "type" \notin c.keys THEN <<"Missing required field: type">>
  ELSE IF c.type # t THEN <<"Configuration type does not match automation type">>
  ELSE <<>>

\* error_handler.py:179-203: one error per checked field the config lacks.
RECURSIVE FieldErrors(_, _)
FieldErrors(c, fields) ==
  IF fields = <<>> THEN <<>>
  ELSE (IF Head(fields) \notin c.keys THEN <<Head(fields)>> ELSE <<>>)
       \o FieldErrors(c, Tail(fields))

\* error_handler.py:166-206 validate_automation_config: how the call ends, and
\* the validation_errors of the ValidationError it raises.
validate_automation_config(c, t) ==
  IF ~c.isdict
  THEN [how |-> "raise", what |-> "ValidationError", validation_errors |-> <<>>]
  ELSE LET errors == TypeErrors(c, t) \o FieldErrors(c, CheckedFields(t))
       IN IF errors # <<>>
          THEN [how |-> "raise", what |-> "ValidationError", validation_errors |-> errors]
          ELSE [how |-> "return", what |-> "None", validation_errors |-> <<>>]

InitValidate ==
  /\ LoopIdle("validate_automation_config", {})
  /\ RtIdle
  /\ CbIdle
  /\ MonIdle
  /\ SbxIdle
  /\ McpIdle
  /\ nextId = 1
  /\ ConcIdle
  /\ ErrIdle
  /\ config \in Configs
  /\ automation_type \in TypeNames
  /\ validation = <<>>

\* The call.
Val_Validate ==
  /\ validation = <<>>
  /\ validation' = validate_automation_config(config, automation_type)
  /\ UNCHANGED <<config, automation_type, restVal>>

NextValidate == Val_Validate

SpecValidate == InitValidate /\ [][NextValidate]_vars

\* The three defects of the claim: no 'type', another type, a required field
\* of the automation type (Config.VALIDATION_RULES) missing.  A value that is
\* no dict holds no key at all.
Defective(c, t) ==
  \/ "type" \notin c.keys
  \/ c.type # t
  \/ \E f \in required_fields(t) : f \notin c.keys

RaisedWithErrors ==
  /\ validation.how = "raise" /\ validation.what = "ValidationError"
  /\ validation.validation_errors # <<>>

\* C23 as claimed: the call raises ValidationError with a non-empty
\* validation_errors list exactly when the config lacks 'type', holds another
\* type or lacks a required field, and returns otherwise.  Violated: for a
\* config that is not a dict the ValidationError carries an empty list.
C23_ValidationExact ==
  validation # <<>>
    => /\ RaisedWithErrors <=> Defective(config, automation_type)
       /\ ~Defective(config, automation_type) => validation.how = "return"

\* C23 as amended: for a dict the claim holds as stated; for a value that is
\* not a dict the call raises ValidationError with an empty validation_errors
\* list.
C23_ValidationExactForDicts ==
  validation # <<>>
    => IF config.isdict
       THEN /\ RaisedWithErrors <=> Defective(config, automation_type)
            /\ ~Defective(config, automation_type) => validation.how = "return"
            /\ validation.how \in {"raise", "return"}
            /\ validation.how = "raise" => RaisedWithErrors
       ELSE /\ validation.how = "raise" /\ validation.what = "ValidationError"
            /\ validation.validation_errors = <<>>

\* C23's case: a data_sync config with the right type and 'source' but no
\* 'destination' was rejected with exactly one validation error.
C23_Witness ==
  /\ validation # <<>>
  /\ config.isdict /\ automation_type = "data_sync" /\ config.type = "data_sync"
  /\ config.keys = {"type", "source"}
  /\ RaisedWithErrors /\ Len(validation.validation_errors) = 1

\* ================================================================ MCPClient
\* automation_agent.py:31-88.  The callers are coroutines on one event loop
\* (the agent's function tools, automation_agent.py:689-836): they interleave
\* at every await.
Callers == {1, 2}
MaxRequests == 3

\* The 'result' objects and the 'error' objects a server response may carry.
ServerResults == {"R1"}
ServerErrors == {"E1"}

\* What readline hands to json.loads (automation_agent.py:70-71): bytes that
\* are no JSON (the empty line of a closed pipe among them), a JSON value that
\* is no object, or an object holding any of 'result' and 'error'.
ServerResponses ==
  {[decoded |-> FALSE, object |-> FALSE, has |-> {}, result |-> "", error |-> ""],
   [decoded |-> TRUE, object |-> FALSE, has |-> {}, result |-> "", error |-> ""]}
  \cup {[decoded |-> TRUE, object |-> TRUE, has |-> h,
         result |-> IF "result" \in h THEN r ELSE "",
         error |-> IF "error" \in h THEN e ELSE ""] :
          h \in SUBSET {"result", "error"}, r \in ServerResults, e \in ServerErrors}

NoServerResponse == [decoded |-> FALSE, object |-> FALSE, has |-> {}, result |-> "", error |-> ""]

\* automation_agent.py:75, 81: the value {"success": False, "error": e}
Failure(e) == [how |-> "return", object |-> "failure", success |-> "False", error |-> e]

\* automation_agent.py:77: response.get("result", {})
ResultOf(resp) ==
  [how |-> "return", object |-> IF "result" \in resp.has THEN resp.result ELSE "{}",
   success |-> "", error |-> ""]

\* automation_agent.py:48-50, 55: start_server's exception leaves send_request.
StartRaised == [how |-> "raise", object |-> "", success |-> "", error |-> "exception"]

\* The response handling that prefers a 'result' to an 'error'.
OnResponse_ResultFirst(resp) ==
  IF ~resp.decoded \/ ~resp.object THEN Failure("exception")
  ELSE IF "result" \in resp.has THEN ResultOf(resp)
  ELSE IF "error" \in resp.has THEN Failure(resp.error)
  ELSE ResultOf(resp)

\* automation_agent.py:71-81: json.loads raises on bytes that are no JSON, and
\* the membership test or .get raises on a value that is no object; both are
\* caught by the except clause.
OnResponse(resp) ==
  IF ~resp.decoded \/ ~resp.object THEN Failure("exception")
  ELSE IF "error" \in resp.has THEN Failure(resp.error)
  ELSE ResultOf(resp)

IdleTask == [pc |-> "idle", entry |-> FALSE]

InitMCP ==
  /\ LoopIdle("MCPClient", {})
  /\ RtIdle
  /\ CbIdle
  /\ MonIdle
  /\ SbxIdle
  /\ nextId = 1
  /\ ConcIdle
  /\ ErrIdle
  /\ ValIdle
  /\ process = 0
  /\ procs = <<>>
  /\ task = [t \in Callers |-> IdleTask]
  /\ stop = "no"
  /\ replies = <<>>

InFlight == {t \in Callers : task[t].pc # "idle"}

Reply(t, stage, resp, value) ==
  /\ replies' = Append(replies, [caller |-> t, entry |-> task[t].entry, stage |-> stage,
                                 resp |-> resp, value |-> value])
  /\ task' = [task EXCEPT ![t] = IdleTask]

\* automation_agent.py:54-55: the test of self.process; start_server is awaited
\* when it is None.
Mcp_Call(t) ==
  /\ stop = "no"
  /\ task[t].pc = "idle"
  /\ Len(replies) + Cardinality(InFlight) < MaxRequests
  /\ task' = [task EXCEPT ![t] = [pc |-> IF process = 0 THEN "starting" ELSE "write",
                                   entry |-> process # 0]]
  /\ UNCHANGED <<process, procs, stop, replies, restMcp>>

\* automation_agent.py:38-50: create_subprocess_exec returns and self.process
\* is assigned, or it raises and the exception leaves send_request.
Mcp_Started(t) ==
  /\ task[t].pc = "starting"
  /\ \/ /\ procs' = Append(procs, "running")
        /\ process' = Len(procs) + 1
        /\ task' = [task EXCEPT ![t].pc = "write"]
        /\ UNCHANGED replies
     \/ /\ Reply(t, "start", NoServerResponse, StartRaised)
        /\ UNCHANGED <<process, procs>>
  /\ UNCHANGED <<stop, restMcp>>

\* automation_agent.py:65-67: the request is written and drained, or one of
\* them raises (self.process is None, the pipe is closed).
Mcp_Write(t) ==
  /\ task[t].pc = "write"
  /\ \/ /\ process # 0
        /\ task' = [task EXCEPT ![t].pc = "read"]
        /\ UNCHANGED replies
     \/ Reply(t, "write", NoServerResponse, Failure("exception"))
  /\ UNCHANGED <<process, procs, stop, restMcp>>

\* automation_agent.py:70-81: readline raises, or hands over a line, which is
\* decoded and answered.
Mcp_Read(t) ==
  /\ task[t].pc = "read"
  /\ \/ Reply(t, "readline", NoServerResponse, Failure("exception"))
     \/ \E resp \in ServerResponses : Reply(t, "read", resp, OnResponse(resp))
  /\ UNCHANGED <<process, procs, stop, restMcp>>

\* automation_agent.py:83-87, 1012: at shutdown, stop_server terminates the
\* subprocess self.process refers to and waits for it.
Mcp_Stop ==
  /\ stop = "no"
  /\ InFlight = {}
  /\ IF process # 0
     THEN /\ procs' = [procs EXCEPT ![process] = "terminated"]
          /\ stop' = "waiting"
     ELSE /\ stop' = "done"
          /\ UNCHANGED procs
  /\ UNCHANGED <<process, task, replies, restMcp>>

\* automation_agent.py:87-88: wait returns and self.process is cleared.
Mcp_Stopped ==
  /\ stop = "waiting"
  /\ process' = 0
  /\ stop' = "done"
  /\ UNCHANGED <<procs, task, replies, restMcp>>

NextMCP ==
  \/ \E t \in Callers : Mcp_Call(t)
  \/ \E t \in Callers : Mcp_Started(t)
  \/ \E t \in Callers : Mcp_Write(t)
  \/ \E t \in Callers : Mcp_Read(t)
  \/ Mcp_Stop
  \/ Mcp_Stopped

SpecMCP == InitMCP /\ [][NextMCP]_vars

\* C24: a send_request call that found a server process returns a value and
\* never raises: the response's 'result' object (an empty object when the
\* response holds none) when the response is an object without 'error', and
\* {success: False, error: ...} when the response carries an 'error' or when
\* writing, reading or decoding failed.
C24_SendRequestReturns ==
  \A i \in 1..Len(replies) :
    LET r == replies[i] IN
      r.entry =>
        /\ r.value.how = "return"
        /\ (r.stage = "read" /\ r.resp.decoded /\ r.resp.object /\ "error" \notin r.resp.has)
             => /\ r.value.success = ""
                /\ r.value.object = (IF "result" \in r.resp.has THEN r.resp.result ELSE "{}")
        /\ (r.stage = "read" /\ "error" \in r.resp.has)
             => r.value = Failure(r.resp.error)
        /\ (r.stage \in {"write", "readline"} \/ ~r.resp.decoded \/ ~r.resp.object)
             => r.value.object = "failure" /\ r.value.success = "False"

\* C24's case: with the server running, one call got a response carrying both
\* 'result' and 'error' and returned the failure value, and another returned
\* the 'result' of its response.
C24_Witness ==
  /\ \E i \in 1..Len(replies) :
       /\ replies[i].entry /\ replies[i].stage = "read"
       /\ replies[i].resp.has = {"result", "error"}
       /\ replies[i].value.object = "failure"
  /\ \E i \in 1..Len(replies) :
       /\ replies[i].entry /\ replies[i].stage = "read"
       /\ replies[i].resp.has = {"result"}
       /\ replies[i].value.object = "R1"

\* C28: at most one server subprocess is ever started, and once stop_server
\* has finished no started subprocess is still running.  Violated: two calls
\* that both find self.process None both start a subprocess, and the first
\* one is lost when self.process is overwritten.
C28_SingleServer ==
  /\ Len(procs) <= 1
  /\ stop = "done" => \A i \in 1..Len(procs) : procs[i] # "running"

\* ====================================================== /api/chat sandboxes
\* 06-deploy-simple-agent-mcp-vercel/main_claude.py:210-247.  Requests are
\* coroutines of one server; each has its own local sandbox_id.
ChatSlots == {1, 2}
MaxChats == 3

\* main_claude.py:90: the ids create_sandbox may draw (random, so two
\* sandboxes may even get the same one).
SandboxIds == {"sandbox-0a", "sandbox-0b"}

\* The finally clause that cleans up whatever happened.
NeedsCleanup_Always(sandbox_id) == TRUE

\* main_claude.py:246: if sandbox_id
NeedsCleanup(sandbox_id) == sandbox_id # ""

IdleChat == [pc |-> "idle", sandbox_id |-> "", created |-> FALSE, cleanups |-> <<>>, how |-> ""]

InitSandbox ==
  /\ LoopIdle("chat", {})
  /\ RtIdle
  /\ CbIdle
  /\ MonIdle
  /\ nextId = 1
  /\ ConcIdle
  /\ ErrIdle
  /\ ValIdle
  /\ McpIdle
  /\ chat = [r \in ChatSlots |-> IdleChat]
  /\ served = <<>>

\* main_claude.py:211-221: a request arrives; sandbox_id = None.
Chat_Request(r) ==
  /\ chat[r].pc = "idle"
  /\ Len(served) + Cardinality({q \in ChatSlots : chat[q].pc # "idle"}) < MaxChats
  /\ chat' = [chat EXCEPT ![r] = [IdleChat EXCEPT !.pc = "create"]]
  /\ UNCHANGED <<served, restSbx>>

\* main_claude.py:225-226, 241-242: create_sandbox returns and its id is kept,
\* or it raises, which the except clause turns into an HTTPException.
Chat_Create(r) ==
  /\ chat[r].pc = "create"
  /\ \/ \E id \in SandboxIds :
          chat' = [chat EXCEPT ![r].pc = "execute", ![r].sandbox_id = id, ![r].created = TRUE]
     \/ chat' = [chat EXCEPT ![r].pc = "finally", ![r].how = "HTTPException"]
  /\ UNCHANGED <<served, restSbx>>

\* main_claude.py:229-242: execute_in_sandbox returns and the response is
\* built, or the agent raises, which ends in an HTTPException as well.
Chat_Execute(r) ==
  /\ chat[r].pc = "execute"
  /\ \E how \in {"success", "HTTPException"} :
       chat' = [chat EXCEPT ![r].pc = "finally", ![r].how = how]
  /\ UNCHANGED <<served, restSbx>>

\* main_claude.py:244-247, 183-186: the finally clause calls cleanup_sandbox
\* with the id when there is one.
Chat_Finally(r) ==
  /\ chat[r].pc = "finally"
  /\ chat' = [chat EXCEPT ![r].pc = "completing",
                          ![r].cleanups = IF NeedsCleanup(chat[r].sandbox_id)
                                          THEN Append(@, chat[r].sandbox_id) ELSE @]
  /\ UNCHANGED <<served, restSbx>>

\* The response or the HTTPException leaves the endpoint.
Chat_Complete(r) ==
  /\ chat[r].pc = "completing"
  /\ served' = Append(served, [created |-> chat[r].created, sandbox_id |-> chat[r].sandbox_id,
                               cleanups |-> chat[r].cleanups, how |-> chat[r].how])
  /\ chat' = [chat EXCEPT ![r] = IdleChat]
  /\ UNCHANGED restSbx

NextSandbox ==
  \/ \E r \in ChatSlots : Chat_Request(r)
  \/ \E r \in ChatSlots : Chat_Create(r)
  \/ \E r \in ChatSlots : Chat_Execute(r)
  \/ \E r \in ChatSlots : Chat_Finally(r)
  \/ \E r \in ChatSlots : Chat_Complete(r)

SpecSandbox == InitSandbox /\ [][NextSandbox]_vars

\* C25: a completed /api/chat request that created a sandbox has called
\* cleanup_sandbox exactly once, with that sandbox's id, whether the agent
\* succeeded or raised; a request whose creation failed has called it never;
\* and no request in progress has called it more than once or without a
\* sandbox.
C25_EphemeralSandbox ==
  /\ \A i \in 1..Len(served) :
       /\ served[i].created => served[i].cleanups = <<served[i].sandbox_id>>
       /\ ~served[i].created => served[i].cleanups = <<>>
  /\ \A r \in ChatSlots :
       /\ Len(chat[r].cleanups) <= 1
       /\ chat[r].cleanups # <<>> => chat[r].created /\ chat[r].cleanups = <<chat[r].sandbox_id>>

\* C25's case: one request whose agent raised has cleaned up its sandbox, one
\* that succeeded has too, and one whose creation failed has cleaned up
\* nothing.
C25_Witness ==
  /\ \E i \in 1..Len(served) :
       served[i].created /\ served[i].how = "HTTPException" /\ Len(served[i].cleanups) = 1
  /\ \E i \in 1..Len(served) :
       served[i].created /\ served[i].how = "success" /\ Len(served[i].cleanups) = 1
  /\ \E i \in 1..Len(served) :
       ~served[i].created /\ served[i].how = "HTTPException" /\ served[i].cleanups = <<>>

\* ============================================== the automation monitoring loop
\* automation_agent.py:879-968 with the sheet server's tools
\* (google_sheets_mcp_server.py:81-98, 142-202, 271-354).
MaxRows == 2
MaxCycles == 2

\* google_sheets_mcp_server.py:176: data rows are numbered from 2.
SheetRows == 2..(MaxRows + 1)

\* config.py:66-71
STATUS_PENDING == "pending"
STATUS_PROCESSING == "processing"
STATUS_DEPLOYED == "deployed"
STATUS_FAILED == "failed"
STATUS_COMPLETED == "completed"

\* automation_agent.py:892-930: the steps of a request, in order.
Steps == <<"validate", "generate", "deploy", "test">>

\* google_sheets_mcp_server.py:176-188, 338-340: the rows whose status equals
\* the filter, in sheet order.
list_available_automations(s, filter_status) ==
  SelectSeq([i \in 1..MaxRows |-> i + 1], LAMBDA r : s[r] = filter_status)

\* A request that goes on to the next step whatever the step reported.
AfterStep_Regardless(k, outcome) ==
  IF k < Len(Steps) THEN Steps[k + 1] ELSE "succeed"

\* automation_agent.py:896-941: after step k, the next step when it succeeded,
\* the 'deployed' update after the last one, the 'failed' update when the step
\* reported a failure or an exception was raised.
AfterStep(k, outcome) ==
  IF outcome # "ok" THEN "fail"
  ELSE IF k < Len(Steps) THEN Steps[k + 1] ELSE "succeed"

NoRun == [row |-> 0, writes |-> <<>>, steps |-> <<>>, returned |-> "none"]

InitMonitor ==
  /\ LoopIdle("run_monitoring_loop", {})
  /\ RtIdle
  /\ CbIdle
  /\ nextId = 1
  /\ ConcIdle
  /\ ErrIdle
  /\ ValIdle
  /\ McpIdle
  /\ SbxIdle
  /\ sheet \in [SheetRows -> {STATUS_PENDING, STATUS_COMPLETED}]
  /\ mon = [pc |-> "poll", cycle |-> 1, queue |-> <<>>, cur |-> NoRun]
  /\ runs = <<>>

\* automation_agent.py:808-834 with google_sheets_mcp_server.py:288-297 and
\* 81-98: the status update reaches the cell, or it does not (update_cell
\* returns False on an HttpError, the request to the server fails) and nobody
\* looks at the result.
update_execution_status(s, row, status, took) ==
  IF took THEN [s EXCEPT ![row] = status] ELSE s

\* automation_agent.py:947-956, 964-968: one polling cycle asks for the pending
\* rows; a failed or empty answer ends the cycle.
Mon_Poll ==
  /\ mon.pc = "poll"
  /\ mon.cycle <= MaxCycles
  /\ \/ LET automations == list_available_automations(sheet, STATUS_PENDING)
        IN mon' = IF Len(automations) > 0
                  THEN [mon EXCEPT !.pc = "next", !.queue = automations]
                  ELSE [mon EXCEPT !.cycle = @ + 1]
     \/ mon' = [mon EXCEPT !.cycle = @ + 1]
  /\ UNCHANGED <<sheet, runs, restMon>>

\* automation_agent.py:958-964: the next automation of the cycle, or the end
\* of the cycle.
Mon_Next ==
  /\ mon.pc = "next"
  /\ mon' = IF mon.queue = <<>>
            THEN [mon EXCEPT !.pc = "poll", !.cycle = @ + 1, !.cur = NoRun]
            ELSE [mon EXCEPT !.pc = "begin", !.queue = Tail(@),
                             !.cur = [NoRun EXCEPT !.row = Head(mon.queue)]]
  /\ UNCHANGED <<sheet, runs, restMon>>

\* automation_agent.py:882-890: the request's first update.
Proc_Begin ==
  /\ mon.pc = "begin"
  /\ \E took \in BOOLEAN :
       sheet' = update_execution_status(sheet, mon.cur.row, STATUS_PROCESSING, took)
  /\ mon' = [mon EXCEPT !.pc = Steps[1], !.cur.writes = Append(@, STATUS_PROCESSING)]
  /\ UNCHANGED <<runs, restMon>>

\* automation_agent.py:892-930, 937: one step reports success or failure, or
\* raises.
Proc_Step ==
  \E k \in 1..Len(Steps) :
    /\ mon.pc = Steps[k]
    /\ \E outcome \in {"ok", "fails", "raises"} :
         mon' = [mon EXCEPT !.pc = AfterStep(k, outcome),
                            !.cur.steps = Append(@, <<Steps[k], outcome>>)]
    /\ UNCHANGED <<sheet, runs, restMon>>

\* automation_agent.py:896-899, 907-910, 918-921, 927-930, 937-941: the
\* 'failed' update, then return False.
Proc_Failed ==
  /\ mon.pc = "fail"
  /\ \E took \in BOOLEAN :
       /\ sheet' = update_execution_status(sheet, mon.cur.row, STATUS_FAILED, took)
  /\ mon' = [mon EXCEPT !.pc = "next", !.cur.writes = Append(@, STATUS_FAILED),
                         !.cur.returned = "False"]
  /\ runs' = Append(runs, [row |-> mon.cur.row, status |-> STATUS_FAILED, returned |-> "False"])
  /\ UNCHANGED restMon

\* automation_agent.py:932-935: the 'deployed' update, then return True.
Proc_Deployed ==
  /\ mon.pc = "succeed"
  /\ \E took \in BOOLEAN :
       /\ sheet' = update_execution_status(sheet, mon.cur.row, STATUS_DEPLOYED, took)
  /\ mon' = [mon EXCEPT !.pc = "next", !.cur.writes = Append(@, STATUS_DEPLOYED),
                         !.cur.returned = "True"]
  /\ runs' = Append(runs, [row |-> mon.cur.row, status |-> STATUS_DEPLOYED, returned |-> "True"])
  /\ UNCHANGED restMon

NextMonitor ==
  \/ Mon_Poll
  \/ Mon_Next
  \/ Proc_Begin
  \/ Proc_Step
  \/ Proc_Failed
  \/ Proc_Deployed

SpecMonitor == InitMonitor /\ [][NextMonitor]_vars

TerminalStatuses == {STATUS_DEPLOYED, STATUS_FAILED}

\* The status protocol of one process_automation_request call, finished or in
\* progress, in terms of the status updates it has issued.
ProtocolKept(run, finished) ==
  /\ run.writes # <<>> => run.writes[1] = STATUS_PROCESSING
  /\ run.steps # <<>> => run.writes # <<>>
  /\ Len(run.steps) <= Len(Steps)
  /\ \A i \in 1..Len(run.steps) :
       /\ run.steps[i][1] = Steps[i]
       /\ i < Len(run.steps) => run.steps[i][2] = "ok"
  /\ \A i \in 1..Len(run.writes) :
       run.writes[i] \in TerminalStatuses => finished /\ i = Len(run.writes)
  /\ finished => Len(run.writes) = 2 /\ Last(run.writes) \in TerminalStatuses
  /\ \A i \in 1..Len(run.writes) :
       run.writes[i] = STATUS_DEPLOYED
         => Len(run.steps) = Len(Steps) /\ \A k \in 1..Len(Steps) : run.steps[k][2] = "ok"
  /\ IF finished
     THEN /\ run.returned \in {"True", "False"}
          /\ run.returned = "True" <=> Last(run.writes) = STATUS_DEPLOYED
     ELSE run.returned = "none"

C27_ProcessedOnce ==
  /\ \A i \in 1..Len(runs) : sheet[runs[i].row] # STATUS_PENDING
  /\ \A i, j \in 1..Len(runs) : i # j => runs[i].row # runs[j].row

\* =========================================================== CircuitBreaker
\* error_handler.py:246-296.  The breaker's parameters and the run's length.
failure_threshold == 2
recovery_timeout == 2
MaxTime == 6
MaxCalls == 5

\* error_handler.py:265: the functions call tells apart.
FuncKinds == {"plain", "coroutine"}

\* error_handler.py:277-282
should_attempt_reset(b, t) ==
  b.last_failure_time # 0 /\ t - b.last_failure_time > recovery_timeout

\* error_handler.py:284-287
on_success(b) == [b EXCEPT !.failure_count = 0, !.state = "CLOSED"]

\* error_handler.py:289-296
on_failure(b, t) ==
  [b EXCEPT !.failure_count = @ + 1,
            !.last_failure_time = t,
            !.state = IF b.failure_count + 1 >= failure_threshold THEN "OPEN" ELSE @]

\* error_handler.py:264-275: what call sees of the function.  A plain function
\* raises inside the try block; a coroutine function only yields a task
\* (asyncio.create_task), whose later failure call never sees.
Seen(kind, fails) == kind = "plain" /\ fails

NoCall == [pc |-> "idle", n |-> 0, kind |-> "", entered |-> "", invoked |-> FALSE,
           failed |-> FALSE, how |-> "none"]

InitBreaker ==
  /\ LoopIdle("CircuitBreaker", {})
  /\ RtIdle
  /\ nextId = 1
  /\ ConcIdle
  /\ ErrIdle
  /\ ValIdle
  /\ McpIdle
  /\ SbxIdle
  /\ MonIdle
  /\ breaker = [state |-> "CLOSED", failure_count |-> 0, last_failure_time |-> 0]
  /\ now = 1
  /\ cbcall = NoCall
  /\ failed_in_a_row = 0

\* Time passes.
Cb_Tick ==
  /\ now < MaxTime
  /\ now' = now + 1
  /\ UNCHANGED <<breaker, cbcall, failed_in_a_row, restCb>>

\* error_handler.py:256-262: the test of the state at the head of call.
Cb_Call(kind) ==
  /\ cbcall.pc = "idle"
  /\ cbcall.n < MaxCalls
  /\ LET c == [NoCall EXCEPT !.n = cbcall.n + 1, !.kind = kind, !.entered = breaker.state]
     IN IF breaker.state = "OPEN" /\ ~should_attempt_reset(breaker, now)
        THEN /\ cbcall' = [c EXCEPT !.how = "AutomationError"]
             /\ UNCHANGED breaker
        ELSE /\ cbcall' = [c EXCEPT !.pc = "running"]
             /\ breaker' = IF breaker.state = "OPEN"
                           THEN [breaker EXCEPT !.state = "HALF_OPEN"] ELSE breaker
  /\ UNCHANGED <<now, failed_in_a_row, restCb>>

\* error_handler.py:264-275: the function is invoked; it succeeds or fails.
Cb_Run ==
  /\ cbcall.pc = "running"
  /\ \E fails \in BOOLEAN :
       /\ breaker' = IF Seen(cbcall.kind, fails) THEN on_failure(breaker, now)
                     ELSE on_success(breaker)
       /\ cbcall' = [cbcall EXCEPT !.pc = "idle", !.invoked = TRUE, !.failed = fails,
                                   !.how = IF Seen(cbcall.kind, fails) THEN "raised"
                                           ELSE "returned"]
       /\ failed_in_a_row' = IF fails THEN failed_in_a_row + 1 ELSE 0
  /\ UNCHANGED <<now, restCb>>

NextBreaker ==
  \/ Cb_Tick
  \/ \E kind \in FuncKinds : Cb_Call(kind)
  \/ Cb_Run

SpecBreaker == InitBreaker /\ [][NextBreaker]_vars

\* C29: the state is always CLOSED, OPEN or HALF_OPEN; between calls the
\* breaker is OPEN once failure_threshold invoked functions in a row have
\* failed; a call that found it OPEN before the timeout raised AutomationError
\* without invoking the function; and a call that ran in HALF_OPEN closed the
\* breaker with failure_count 0 when the function succeeded and re-opened it
\* when the function failed.  Violated: a failing coroutine function counts as
\* a success.
C29_ThreeStateMachine ==
  /\ breaker.state \in {"CLOSED", "OPEN", "HALF_OPEN"}
  /\ cbcall.pc = "idle" /\ failed_in_a_row >= failure_threshold => breaker.state = "OPEN"
  /\ cbcall.how = "AutomationError" => cbcall.entered = "OPEN" /\ ~cbcall.invoked
  /\ cbcall.pc = "running" /\ cbcall.entered = "OPEN" => breaker.state = "HALF_OPEN"
  /\ cbcall.pc = "idle" /\ cbcall.invoked /\ cbcall.entered = "OPEN"
       => IF cbcall.failed THEN breaker.state = "OPEN"
          ELSE breaker.state = "CLOSED" /\ breaker.failure_count = 0

\* ============================================================= RetryHandler
\* error_handler.py:208-244.  The handler's parameters: max_retries is drawn
\* from 0..MaxRetries, the delays are in seconds.
MaxRetries == 3
base_delay == 1
max_delay == 4

\* What one invocation of the function does: it returns, raises an Exception,
\* or raises something the except clause does not catch (a cancellation).
Exceptions == {"ConnectionError", "ValueError"}
FuncOutcomes == {"returns", "CancelledError"} \cup Exceptions

\* The exception object raised by the n-th invocation; None.
Raised(n, type) == [attempt |-> n, type |-> type]
NoException == [attempt |-> 0, type |-> "None"]

RECURSIVE Pow2(_)
Pow2(n) == IF n = 0 THEN 1 ELSE 2 * Pow2(n - 1)

\* error_handler.py:240
Delay(attempt) ==
  IF base_delay * Pow2(attempt) < max_delay THEN base_delay * Pow2(attempt) ELSE max_delay

\* A loop that gives up one attempt early.
LastAttempt_Early(max_retries, attempt) == attempt + 1 >= max_retries

\* error_handler.py:226, 236: the attempt after which the loop gives up.
LastAttempt(max_retries, attempt) == attempt = max_retries

InitRetry ==
  /\ LoopIdle("retry_with_backoff", {})
  /\ nextId = 1
  /\ ConcIdle
  /\ ErrIdle
  /\ ValIdle
  /\ McpIdle
  /\ SbxIdle
  /\ MonIdle
  /\ CbIdle
  /\ \E m \in 0..MaxRetries :
       retry = [max_retries |-> m, pc |-> "try", attempt |-> 0,
                last_exception |-> NoException, slept |-> 0, how |-> "none",
                value |-> 0, exception |-> NoException]
  /\ attempts = <<>>

\* error_handler.py:227-238, 244: one attempt.  The function's result is
\* returned; an uncaught exception leaves at once; an Exception is kept as
\* last_exception and, after the last attempt, raised.
Retry_Attempt ==
  /\ retry.pc = "try"
  /\ \E out \in FuncOutcomes :
       /\ attempts' = Append(attempts, out)
       /\ retry' =
            LET n == Len(attempts) + 1 IN
            CASE out = "returns" ->
                   [retry EXCEPT !.pc = "done", !.how = "returned", !.value = n]
              [] out = "CancelledError" ->
                   [retry EXCEPT !.pc = "done", !.how = "raised", !.exception = Raised(n, out)]
              [] OTHER ->
                   IF LastAttempt(retry.max_retries, retry.attempt)
                   THEN [retry EXCEPT !.pc = "done", !.how = "raised",
                                      !.last_exception = Raised(n, out),
                                      !.exception = Raised(n, out)]
                   ELSE [retry EXCEPT !.pc = "sleep", !.last_exception = Raised(n, out)]
  /\ UNCHANGED restRt

\* error_handler.py:240-242, 226: the backoff sleep ends and the next attempt
\* begins.
Retry_Sleep ==
  /\ retry.pc = "sleep"
  /\ retry' = [retry EXCEPT !.pc = "try", !.attempt = @ + 1, !.slept = @ + Delay(retry.attempt)]
  /\ UNCHANGED <<attempts, restRt>>

NextRetry ==
  \/ Retry_Attempt
  \/ Retry_Sleep

SpecRetry == InitRetry /\ [][NextRetry]_vars

\* C30: the function is invoked at most max_retries + 1 times; no invocation
\* follows one that returned; the call returns the result of the invocation
\* that returned, or raises the exception of its last invocation, which is
\* the (max_retries + 1)-th when that one raised an Exception; and until the
\* call has ended a next step is always possible, each one moving on to a
\* later attempt of at most max_retries + 1.
C30_BoundedRetry ==
  /\ Len(attempts) <= retry.max_retries + 1
  /\ \A i \in 1..Len(attempts) : i < Len(attempts) => attempts[i] \in Exceptions
  /\ retry.pc = "done" =>
       /\ attempts # <<>>
       /\ retry.how \in {"returned", "raised"}
       /\ retry.how = "returned" <=> Last(attempts) = "returns"
       /\ retry.how = "returned" => retry.value = Len(attempts)
       /\ retry.how = "raised" => retry.exception = Raised(Len(attempts), Last(attempts))
       /\ Last(attempts) \in Exceptions => Len(attempts) = retry.max_retries + 1
  /\ retry.pc # "done" =>
       /\ ENABLED NextRetry
       /\ retry.attempt <= retry.max_retries
       /\ Len(attempts) = retry.attempt + (IF retry.pc = "sleep" THEN 1 ELSE 0)
       /\ retry.slept <= retry.attempt * max_delay

\* C30's case: with max_retries 2 the third attempt returned after two
\* failures, and the call returned its result.
C30_Witness ==
  /\ retry.max_retries = 2
  /\ attempts = <<"ConnectionError", "ValueError", "returns">>
  /\ retry.pc = "done" /\ retry.how = "returned" /\ retry.value = 3

\* C30's second case: every attempt failed and the last one's exception was raised.
C30_WitnessExhausted ==
  /\ retry.max_retries = 2
  /\ attempts = <<"ConnectionError", "ConnectionError", "ValueError">>
  /\ retry.pc = "done" /\ retry.how = "raised"
  /\ retry.exception = Raised(3, "ValueError")

====
